---- MODULE Spec2Model ----
(***************************************************************************)
(* Model of the synchronisation syscalls (os/src/syscall/sync.rs) and of   *)
(* child reaping (os/src/syscall/process.rs) of the rCore teaching kernel. *)
(*                                                                         *)
(* One process is modelled for the synchronisation part.  Thread ids and   *)
(* resource ids are 0-based as in the source; TLA+ sequences are 1-based,  *)
(* so element k of a Rust Vec is element k+1 of the sequence.              *)
(*                                                                         *)
(* usize counters are kept as the two's-complement representative of      *)
(* their 64-bit value: v < 2^63 is the integer v, and v >= 2^63 is the     *)
(* negative integer v - 2^64.  A counter decremented from 0 is therefore   *)
(* -1 (the value 2^64 - 1) in a build without overflow checks, and a       *)
(* kernel panic in a build with them (overflow_checks).                    *)
(***************************************************************************)
EXTENDS Integers, Sequences, FiniteSets, TLC

\* ---------------------------------------------------------------- bounds
MaxThreads == 2
MaxMutexes == 2
MaxSems == 1
MaxSemCount == 1
MaxCount == 1
MaxMutexesDetect == 4
MaxCountDetect == 1
MaxCountCross == 1
MaxProcs == 4
MaxPage == 2
MaxSlots == 3
MaxCheckRows == 2
MaxCheckCols == 2

\* -0xDEAD, the return value of a rejected request
DEAD == -57005

VARIABLES
  overflow_checks,      \* build profile: arithmetic overflow panics (debug) or wraps (release)
  fault,                \* "none", or the kind of panic that stopped the kernel
  tasks,                \* process_inner.tasks.len()
  deadlock_detect,      \* process_inner.deadlock_detect
  mutex_list,           \* process_inner.mutex_list
  mutex_available,      \* process_inner.mutex_available
  mutex_allocation,     \* process_inner.mutex_allocation
  mutex_need,           \* process_inner.mutex_need
  semaphore_list,       \* process_inner.semaphore_list
  semaphore_available,  \* process_inner.semaphore_available
  semaphore_allocation, \* process_inner.semaphore_allocation
  semaphore_need,       \* process_inner.semaphore_need
  condvar_list,         \* process_inner.condvar_list
  pc,                   \* per thread: where the thread is suspended
  arg,                  \* per thread: the id argument of the syscall it is suspended in
  ret,                  \* the value the latest completed syscall returned
  procs,                \* the process tree: pid -> parent, children, zombie flag, exit code
  next_pid,             \* the pid the next new process gets
  sched,                \* the processes handed to add_task, in order
  memory_set,           \* the regions mapped by mmap in the address space of the process
  inner_access,         \* the threads that hold the exclusive access to process_inner
  check                 \* a safety check run pass by pass: its inputs, finish, work, passes

syncVars == <<tasks, deadlock_detect, mutex_list, mutex_available, mutex_allocation,
              mutex_need, semaphore_list, semaphore_available, semaphore_allocation,
              semaphore_need, condvar_list, pc, arg, ret>>

procVars == <<procs, next_pid, sched>>

memVars == <<memory_set>>

accessVars == <<inner_access>>

checkVars == <<check>>

vars == <<overflow_checks, fault, syncVars, procVars, memVars, accessVars, checkVars>>

Tids == 0 .. (tasks - 1)

\* ------------------------------------------------------- usize arithmetic
\* the comparison turned around
UGe(a, b) ==
  IF (a >= 0) = (b >= 0) THEN a >= b ELSE b >= 0

\* unsigned comparison a <= b on representatives
ULe(a, b) ==
  IF (a >= 0) = (b >= 0) THEN a <= b ELSE a >= 0

\* a - 1 wraps below zero exactly when a = 0
SubOverflows(a) == a = 0

\* a + b wraps past 2^64
AddOverflows(a, b) ==
  \/ a < 0 /\ b < 0
  \/ a < 0 /\ b >= 0 /\ a + b >= 0
  \/ b < 0 /\ a >= 0 /\ a + b >= 0

\* ------------------------------------------------------------- Vec helpers
InRange(v, i) == i >= 0 /\ i < Len(v)

Get(v, i) == v[i + 1]

Set(v, i, x) == [v EXCEPT ![i + 1] = x]

Get2(m, i, j) == m[i + 1][j + 1]

Set2(m, i, j, x) == [m EXCEPT ![i + 1][j + 1] = x]

\* vec![0; n]
Zeros(n) == [k \in 1 .. n |-> 0]

\* for i in m.iter_mut() { i.push(0) }
PushColumn(m) == [r \in 1 .. Len(m) |-> Append(m[r], 0)]

\* the column of a reused slot keeps what the rows held
KeepColumn(m, id) == m

\* for i in m.iter_mut() { i[id] = 0 }
ZeroColumn(m, id) == [r \in 1 .. Len(m) |-> [m[r] EXCEPT ![id + 1] = 0]]

\* the last empty slot instead of the first
LastEmpty(list) ==
  IF \E k \in 1 .. Len(list) : ~list[k].some
  THEN (CHOOSE k \in 1 .. Len(list) :
          /\ ~list[k].some
          /\ \A j \in (k + 1) .. Len(list) : list[j].some) - 1
  ELSE -1

\* .iter().enumerate().find(|(_, item)| item.is_none()).map(|(id, _)| id); -1 for None
FirstEmpty(list) ==
  IF \E k \in 1 .. Len(list) : ~list[k].some
  THEN (CHOOSE k \in 1 .. Len(list) :
          /\ ~list[k].some
          /\ \A j \in 1 .. (k - 1) : list[j].some) - 1
  ELSE -1

\* ------------------------------------------------- exclusive access (UPSafeCell)
\* A syscall handler runs from its entry to the point where its thread is suspended or
\* back in user mode without another thread running in between.  It takes the RefMut
\* on the inner state of the process with inner_exclusive_access(); inner_access is
\* the set of threads whose RefMut is alive at the end of the step.
\* the RefMut of t is still alive: no drop was reached
KeptAccess(t) == inner_access \cup {t}

\* process.inner_exclusive_access() by t, then drop(process_inner) or the end of the
\* scope of process_inner
DroppedAccess(t) == (inner_access \cup {t}) \ {t}

\* the kernel panicked: nothing else changes and nothing runs afterwards
Panic(kind) ==
  /\ fault' = kind
  /\ UNCHANGED <<checkVars, accessVars, memVars, procVars, overflow_checks, syncVars>>

\* ------------------------------------------------------------------- Init
\* ProcessControlBlock::new: one thread, empty slot lists and matrices, detection off
InitSync ==
  /\ tasks = 1
  /\ deadlock_detect = FALSE
  /\ mutex_list = <<>>
  /\ mutex_available = <<>>
  /\ mutex_allocation = <<>>
  /\ mutex_need = <<>>
  /\ semaphore_list = <<>>
  /\ semaphore_available = <<>>
  /\ semaphore_allocation = <<>>
  /\ semaphore_need = <<>>
  /\ condvar_list = <<>>
  /\ pc = <<"user">>
  /\ arg = <<0>>
  /\ ret = 0

\* the initial process: no parent, no children
NoParent == -1

\* the parent reference of the new process left unset
NewOrphan(parent) ==
  [parent |-> NoParent, children |-> <<>>, is_zombie |-> FALSE, exit_code |-> 0,
   exit_code_out |-> 0]

NewProcess(parent) ==
  [parent |-> parent, children |-> <<>>, is_zombie |-> FALSE, exit_code |-> 0,
   exit_code_out |-> 0]

InitProcs ==
  /\ procs = [p \in {0} |-> NewProcess(NoParent)]
  /\ next_pid = 1
  /\ sched = <<>>

\* nobody is inside a syscall
InitAccess == inner_access = {}

\* no safety check is being followed pass by pass
IdleCheck ==
  [kind |-> "none", tid |-> 0, need |-> <<>>, alloc |-> <<>>,
   st |-> [fault |-> "none", finish |-> <<>>, work |-> <<>>, is_safe |-> TRUE],
   passes |-> 0, done |-> TRUE]

InitCheck == check = IdleCheck

\* no region has been mapped by mmap yet
InitMem == memory_set = {}

Init ==
  /\ overflow_checks \in BOOLEAN
  /\ fault = "none"
  /\ InitSync
  /\ InitProcs
  /\ InitMem
  /\ InitAccess
  /\ InitCheck

\* a thread that is in user mode and can issue a syscall
CanCall(t) == fault = "none" /\ t \in Tids /\ pc[t + 1] = "user"

Return(t, r) == ret' = r

\* ----------------------------------------------------------- thread create
\* Every live thread owns one zeroed row of each matrix.
PadRows(m, n, width) == m \o [k \in 1 .. (n - Len(m)) |-> Zeros(width)]

sys_thread_create(t) ==
  /\ CanCall(t)
  /\ tasks' = tasks + 1
  /\ mutex_allocation' = PadRows(mutex_allocation, tasks + 1, Len(mutex_list))
  /\ mutex_need' = PadRows(mutex_need, tasks + 1, Len(mutex_list))
  /\ semaphore_allocation' = PadRows(semaphore_allocation, tasks + 1, Len(semaphore_list))
  /\ semaphore_need' = PadRows(semaphore_need, tasks + 1, Len(semaphore_list))
  /\ pc' = Append(pc, "user")
  /\ arg' = Append(arg, 0)
  /\ Return(t, tasks)
  /\ inner_access' = DroppedAccess(t)
  /\ UNCHANGED <<checkVars, memVars, procVars, overflow_checks, fault, condvar_list, deadlock_detect, mutex_list, mutex_available,
                 semaphore_list, semaphore_available>>

\* ----------------------------------------------------------- mutex create
\* Arc::new(MutexSpin::new()) / Arc::new(MutexBlocking::new())
NewMutex(blocking) ==
  [some |-> TRUE, blocking |-> blocking, locked |-> FALSE, wait_queue |-> <<>>]

sys_mutex_create(t, blocking) ==
  /\ CanCall(t)
  /\ LET id == FirstEmpty(mutex_list)
         mutex_count == Len(mutex_list)
         alloc0 == IF mutex_need = <<>>
                   THEN Append(mutex_allocation, Zeros(mutex_count))
                   ELSE mutex_allocation
         need0 == IF mutex_need = <<>>
                  THEN Append(mutex_need, Zeros(mutex_count))
                  ELSE mutex_need
     IN IF id >= 0
        THEN /\ mutex_list' = Set(mutex_list, id, NewMutex(blocking))
             /\ mutex_available' = Set(mutex_available, id, 1)
             /\ mutex_allocation' = ZeroColumn(alloc0, id)
             /\ mutex_need' = ZeroColumn(need0, id)
             /\ Return(t, id)
        ELSE /\ mutex_list' = Append(mutex_list, NewMutex(blocking))
             /\ mutex_available' = Append(mutex_available, 1)
             /\ mutex_allocation' = PushColumn(alloc0)
             /\ mutex_need' = PushColumn(need0)
             /\ Return(t, Len(mutex_list))
  /\ inner_access' = DroppedAccess(t)
  /\ UNCHANGED <<checkVars, memVars, procVars, overflow_checks, fault, condvar_list, tasks, deadlock_detect, semaphore_list,
                 semaphore_available, semaphore_allocation, semaphore_need, pc, arg>>

\* ------------------------------------------------- enable deadlock detect
sys_enable_deadlock_detect(t, enabled) ==
  /\ CanCall(t)
  /\ deadlock_detect' = (enabled = 1)
  /\ Return(t, 0)
  /\ inner_access' = DroppedAccess(t)
  /\ UNCHANGED <<checkVars, memVars, procVars, overflow_checks, fault, condvar_list, tasks, mutex_list, mutex_available,
                 mutex_allocation, mutex_need, semaphore_list, semaphore_available,
                 semaphore_allocation, semaphore_need, pc, arg>>

\* ----------------------------------------------- mutex_lock: safety check
\* State of the check: the first panic met ("none" if none), finish, work, is_safe.
\* The second for-loop of sys_mutex_lock from index i on; n is mutex_need.len().
RECURSIVE MutexCheckInner(_, _, _, _, _, _)
MutexCheckInner(i, n, tid, need, alloc, st) ==
  IF i >= n THEN st
  ELSE IF ~InRange(Get(need, tid), i) \/ ~InRange(st.work, i)
  THEN [st EXCEPT !.fault = "index_out_of_bounds"]
  ELSE IF ULe(Get2(need, tid, i), Get(st.work, i))
  THEN IF overflow_checks /\ AddOverflows(Get(st.work, i), Get2(alloc, tid, i))
       THEN [st EXCEPT !.fault = "overflow"]
       ELSE IF ~InRange(st.finish, i)
       THEN [st EXCEPT !.fault = "index_out_of_bounds"]
       ELSE MutexCheckInner(i + 1, n, tid, need, alloc,
              [fault |-> "none",
               finish |-> Set(st.finish, i, TRUE),
               work |-> Set(st.work, i, Get(st.work, i) + Get2(alloc, tid, i)),
               is_safe |-> TRUE])
  ELSE [st EXCEPT !.is_safe = FALSE]

\* The first for-loop: is every finish[i], i < mutex_need.len(), set?  It stops at the
\* first unset entry, and indexes finish out of range when it meets none before its end.
MutexCheckAllFinished(finish, n) ==
  IF \E i \in 0 .. (n - 1) : InRange(finish, i) /\ ~Get(finish, i)
  THEN [fault |-> "none", all |-> FALSE]
  ELSE IF n > Len(finish)
  THEN [fault |-> "index_out_of_bounds", all |-> TRUE]
  ELSE [fault |-> "none", all |-> TRUE]

\* a pass that never ends the loop
MutexNeverExits(first, after) == FALSE

\* the three ways out of the loop { ... } of sys_mutex_lock within one pass: a panic,
\* `if is_safe { break; }` after the first for-loop, `if !is_safe { break; }` after the
\* second
MutexPassExits(first, after) ==
  first.fault # "none" \/ first.all \/ after.fault # "none" \/ ~after.is_safe

\* one pass of the loop { ... } of sys_mutex_lock: the check state after it, and whether
\* the loop is left
MutexCheckPass(n, tid, need, alloc, st) ==
  LET first == MutexCheckAllFinished(st.finish, n)
      after == IF first.fault # "none" THEN [st EXCEPT !.fault = first.fault]
               ELSE IF first.all THEN st
               ELSE MutexCheckInner(0, n, tid, need, alloc, [st EXCEPT !.is_safe = FALSE])
  IN [st |-> after, exit |-> MutexPassExits(first, after)]

\* the loop { ... } of sys_mutex_lock
RECURSIVE MutexCheckLoop(_, _, _, _, _)
MutexCheckLoop(n, tid, need, alloc, st) ==
  LET pass == MutexCheckPass(n, tid, need, alloc, st)
  IN IF pass.exit THEN pass.st
     ELSE MutexCheckLoop(n, tid, need, alloc, pass.st)

\* finish = vec![false; task_count]; work = mutex_available.clone(); loop
MutexSafetyCheck(tid, need, alloc, available, task_count) ==
  MutexCheckLoop(Len(need), tid, need, alloc,
                 [fault |-> "none",
                  finish |-> [k \in 1 .. task_count |-> FALSE],
                  work |-> available,
                  is_safe |-> TRUE])

\* for i in finish { if !i { return -0xDEAD } }
Rejected(finish) == \E k \in 1 .. Len(finish) : ~finish[k]

\* ------------------------------------------------------------- mutex lock
\* process_inner.mutex_list[mutex_id].as_ref().unwrap(): "none" when it succeeds
SlotFault(list, id) ==
  IF ~InRange(list, id) THEN "index_out_of_bounds"
  ELSE IF ~Get(list, id).some THEN "unwrap_none"
  ELSE "none"

\* The bookkeeping after mutex.lock() has returned (lines 151-158).
MutexLockTail(t, mutex_id, list1, need1) ==
  IF \/ ~InRange(mutex_available, mutex_id)
     \/ ~InRange(need1, t)
     \/ ~InRange(Get(need1, t), mutex_id)
  THEN Panic("index_out_of_bounds")
  ELSE IF /\ overflow_checks
          /\ \/ SubOverflows(Get(mutex_available, mutex_id))
             \/ SubOverflows(Get2(need1, t, mutex_id))
             \/ AddOverflows(Get2(mutex_allocation, t, mutex_id), 1)
  THEN Panic("overflow")
  ELSE /\ mutex_list' = list1
       /\ mutex_available' = Set(mutex_available, mutex_id, Get(mutex_available, mutex_id) - 1)
       /\ mutex_need' = Set2(need1, t, mutex_id, Get2(need1, t, mutex_id) - 1)
       /\ mutex_allocation' =
            Set2(mutex_allocation, t, mutex_id, Get2(mutex_allocation, t, mutex_id) + 1)
       /\ pc' = Set(pc, t, "user")
       /\ arg' = Set(arg, t, 0)
       /\ Return(t, 0)
       /\ inner_access' = DroppedAccess(t)
       /\ UNCHANGED <<checkVars, memVars, procVars, overflow_checks, fault, condvar_list, tasks, deadlock_detect, semaphore_list,
                      semaphore_available, semaphore_allocation, semaphore_need>>

\* mutex.lock() finds the mutex locked: MutexBlocking parks the thread on its wait
\* queue, MutexSpin keeps the thread polling the flag.
MutexLockWait(t, mutex_id, need1) ==
  LET m == Get(mutex_list, mutex_id)
  IN /\ mutex_list' = IF m.blocking
                      THEN Set(mutex_list, mutex_id,
                               [m EXCEPT !.wait_queue = Append(@, t)])
                      ELSE mutex_list
     /\ mutex_need' = need1
     /\ pc' = Set(pc, t, IF m.blocking THEN "mutex_blocked" ELSE "mutex_spin")
     /\ arg' = Set(arg, t, mutex_id)
     /\ inner_access' = DroppedAccess(t)
     /\ UNCHANGED <<checkVars, memVars, procVars, overflow_checks, fault, condvar_list, tasks, deadlock_detect, mutex_available,
                    mutex_allocation, semaphore_list, semaphore_available,
                    semaphore_allocation, semaphore_need, ret>>

\* return -0xDEAD: the incremented Need stays in process_inner
MutexLockReject(t, need1) ==
  /\ mutex_need' = need1
  /\ Return(t, DEAD)
  /\ inner_access' = DroppedAccess(t)
  /\ UNCHANGED <<checkVars, memVars, procVars, overflow_checks, fault, condvar_list, tasks, deadlock_detect, mutex_list,
                 mutex_available, mutex_allocation, semaphore_list, semaphore_available,
                 semaphore_allocation, semaphore_need, pc, arg>>

\* the safety check run whatever the flag says
MutexDetectAlways == TRUE

\* if process_inner.deadlock_detect { ... }
MutexDetectEnabled == deadlock_detect

sys_mutex_lock(t, mutex_id) ==
  /\ CanCall(t)
  /\ IF MutexDetectEnabled /\ (~InRange(mutex_need, t) \/ ~InRange(Get(mutex_need, t), mutex_id))
     THEN Panic("index_out_of_bounds")
     ELSE IF MutexDetectEnabled /\ overflow_checks /\ AddOverflows(Get2(mutex_need, t, mutex_id), 1)
     THEN Panic("overflow")
     ELSE LET need1 == IF MutexDetectEnabled
                       THEN Set2(mutex_need, t, mutex_id, Get2(mutex_need, t, mutex_id) + 1)
                       ELSE mutex_need
              chk == IF MutexDetectEnabled
                     THEN MutexSafetyCheck(t, need1, mutex_allocation, mutex_available, tasks)
                     ELSE [fault |-> "none", finish |-> <<>>, work |-> <<>>, is_safe |-> TRUE]
          IN IF chk.fault # "none" THEN Panic(chk.fault)
             ELSE IF Rejected(chk.finish) THEN MutexLockReject(t, need1)
             ELSE IF SlotFault(mutex_list, mutex_id) # "none"
             THEN Panic(SlotFault(mutex_list, mutex_id))
             ELSE IF Get(mutex_list, mutex_id).locked
             THEN MutexLockWait(t, mutex_id, need1)
             ELSE MutexLockTail(t, mutex_id,
                    Set(mutex_list, mutex_id, [Get(mutex_list, mutex_id) EXCEPT !.locked = TRUE]),
                    need1)

\* A thread woken by unlock (MutexBlocking hands the lock over to it), or a polling
\* thread that finds the flag clear (MutexSpin), returns from mutex.lock().
mutex_lock_resume(t) ==
  /\ fault = "none"
  /\ t \in Tids
  /\ \/ pc[t + 1] = "mutex_ready"
        /\ MutexLockTail(t, arg[t + 1], mutex_list, mutex_need)
     \/ pc[t + 1] = "mutex_spin"
        /\ ~Get(mutex_list, arg[t + 1]).locked
        /\ MutexLockTail(t, arg[t + 1],
             Set(mutex_list, arg[t + 1], [Get(mutex_list, arg[t + 1]) EXCEPT !.locked = TRUE]),
             mutex_need)

\* ----------------------------------------------------------- mutex unlock
\* mutex.unlock(): MutexBlocking wakes the first waiter and leaves the lock held for it,
\* otherwise the lock is released.
MutexUnlockList(mutex_id) ==
  LET m == Get(mutex_list, mutex_id)
  IN IF m.blocking /\ m.wait_queue # <<>>
     THEN Set(mutex_list, mutex_id, [m EXCEPT !.wait_queue = Tail(@)])
     ELSE Set(mutex_list, mutex_id, [m EXCEPT !.locked = FALSE])

\* the woken waiter is inside sys_mutex_lock or inside condvar.wait
MutexUnlockPc(t, mutex_id) ==
  LET m == Get(mutex_list, mutex_id)
  IN IF m.blocking /\ m.wait_queue # <<>>
     THEN Set(pc, Head(m.wait_queue),
              IF Get(pc, Head(m.wait_queue)) = "condvar_mutex_blocked"
              THEN "condvar_mutex_ready" ELSE "mutex_ready")
     ELSE pc

sys_mutex_unlock(t, mutex_id) ==
  /\ CanCall(t)
  /\ IF \/ ~InRange(mutex_available, mutex_id)
        \/ ~InRange(mutex_allocation, t)
        \/ ~InRange(Get(mutex_allocation, t), mutex_id)
     THEN Panic("index_out_of_bounds")
     ELSE IF /\ overflow_checks
             /\ \/ AddOverflows(Get(mutex_available, mutex_id), 1)
                \/ SubOverflows(Get2(mutex_allocation, t, mutex_id))
     THEN Panic("overflow")
     ELSE IF SlotFault(mutex_list, mutex_id) # "none"
     THEN Panic(SlotFault(mutex_list, mutex_id))
     ELSE /\ mutex_available' = Set(mutex_available, mutex_id, Get(mutex_available, mutex_id) + 1)
          /\ mutex_allocation' =
               Set2(mutex_allocation, t, mutex_id, Get2(mutex_allocation, t, mutex_id) - 1)
          /\ mutex_list' = MutexUnlockList(mutex_id)
          /\ pc' = MutexUnlockPc(t, mutex_id)
          /\ Return(t, 0)
          /\ inner_access' = DroppedAccess(t)
          /\ UNCHANGED <<checkVars, memVars, procVars, overflow_checks, fault, condvar_list, tasks, deadlock_detect, mutex_need,
                         semaphore_list, semaphore_available, semaphore_allocation,
                         semaphore_need, arg>>

\* ------------------------------------------------------- semaphore create
\* Arc::new(Semaphore::new(res_count)); res_count keeps the initial count
NewSemaphore(res_count) ==
  [some |-> TRUE, res_count |-> res_count, count |-> res_count, wait_queue |-> <<>>]

sys_semaphore_create(t, res_count) ==
  /\ CanCall(t)
  /\ LET id == FirstEmpty(semaphore_list)
         sem_count == Len(semaphore_list)
         alloc0 == IF semaphore_need = <<>>
                   THEN Append(semaphore_allocation, Zeros(sem_count))
                   ELSE semaphore_allocation
         need0 == IF semaphore_need = <<>>
                  THEN Append(semaphore_need, Zeros(sem_count))
                  ELSE semaphore_need
     IN IF id >= 0
        THEN /\ semaphore_list' = Set(semaphore_list, id, NewSemaphore(res_count))
             /\ semaphore_available' = Set(semaphore_available, id, res_count)
             /\ semaphore_allocation' = ZeroColumn(alloc0, id)
             /\ semaphore_need' = ZeroColumn(need0, id)
             /\ Return(t, id)
        ELSE /\ semaphore_list' = Append(semaphore_list, NewSemaphore(res_count))
             /\ semaphore_available' = Append(semaphore_available, res_count)
             /\ semaphore_allocation' = PushColumn(alloc0)
             /\ semaphore_need' = PushColumn(need0)
             /\ Return(t, Len(semaphore_list))
  /\ inner_access' = DroppedAccess(t)
  /\ UNCHANGED <<checkVars, memVars, procVars, overflow_checks, fault, condvar_list, tasks, deadlock_detect, mutex_list,
                 mutex_available, mutex_allocation, mutex_need, pc, arg>>

\* -------------------------------------------- semaphore_down: safety check
\* the first column alone is compared
SemRowFitsFirstColumn(i, need, work) ==
  IF Len(work) = 0 \/ ~InRange(Get(need, i), 0)
  THEN [fault |-> "none", fits |-> TRUE]
  ELSE [fault |-> "none", fits |-> ULe(Get2(need, i, 0), Get(work, 0))]

\* for j in 0..work.len() { if need[i][j] > work[j] { is_safe_2 = false; break } }
SemRowFits(i, need, work) ==
  LET bad == {j \in 0 .. (Len(work) - 1) :
                ~InRange(Get(need, i), j) \/ ~ULe(Get2(need, i, j), Get(work, j))}
  IN IF bad = {} THEN [fault |-> "none", fits |-> TRUE]
     ELSE LET j == CHOOSE x \in bad : \A y \in bad : x <= y
          IN IF ~InRange(Get(need, i), j)
             THEN [fault |-> "index_out_of_bounds", fits |-> FALSE]
             ELSE [fault |-> "none", fits |-> FALSE]

\* for j in 0..work.len() { work[j] += allocation[i][j] }
SemAddRow(i, alloc, work) ==
  IF \E j \in 0 .. (Len(work) - 1) : ~InRange(Get(alloc, i), j)
  THEN [fault |-> "index_out_of_bounds", work |-> work]
  ELSE IF overflow_checks
          /\ \E j \in 0 .. (Len(work) - 1) : AddOverflows(Get(work, j), Get2(alloc, i, j))
  THEN [fault |-> "overflow", work |-> work]
  ELSE [fault |-> "none",
        work |-> [k \in 1 .. Len(work) |-> work[k] + alloc[i + 1][k]]]

\* one pass of the for-loop over the rows, from row i on; is_safe is cleared when a row
\* is marked
RECURSIVE SemCheckPass(_, _, _, _, _)
SemCheckPass(i, n, need, alloc, st) ==
  IF i >= n THEN st
  ELSE IF ~InRange(st.finish, i) THEN [st EXCEPT !.fault = "index_out_of_bounds"]
  ELSE IF Get(st.finish, i) THEN SemCheckPass(i + 1, n, need, alloc, st)
  ELSE LET row == SemRowFits(i, need, st.work)
           sum == SemAddRow(i, alloc, st.work)
       IN IF row.fault # "none" THEN [st EXCEPT !.fault = row.fault]
          ELSE IF ~row.fits THEN SemCheckPass(i + 1, n, need, alloc, st)
          ELSE IF sum.fault # "none" THEN [st EXCEPT !.fault = sum.fault]
          ELSE SemCheckPass(i + 1, n, need, alloc,
                 [fault |-> "none",
                  finish |-> Set(st.finish, i, TRUE),
                  work |-> sum.work,
                  is_safe |-> FALSE])

\* a pass ends the loop only by a panic
SemExitsOnPanic(after) == after.fault # "none"

\* the ways out of the loop { ... } of sys_semaphore_down: a panic, or
\* `if is_safe { break; }` after a pass that marked no row
SemPassExits(after) == after.fault # "none" \/ after.is_safe

\* one pass of the loop { ... } of sys_semaphore_down: the check state after it, and
\* whether the loop is left
SemCheckIteration(n, need, alloc, st) ==
  LET after == SemCheckPass(0, n, need, alloc, [st EXCEPT !.is_safe = TRUE])
  IN [st |-> after, exit |-> SemPassExits(after)]

\* the loop { ... } of sys_semaphore_down: passes until one marks no row
RECURSIVE SemCheckLoop(_, _, _, _)
SemCheckLoop(n, need, alloc, st) ==
  LET pass == SemCheckIteration(n, need, alloc, st)
  IN IF pass.exit THEN pass.st
     ELSE SemCheckLoop(n, need, alloc, pass.st)

\* finish = vec![false; task_count]; work = semaphore_available.clone(); loop
SemSafetyCheck(need, alloc, available, task_count) ==
  SemCheckLoop(Len(need), need, alloc,
               [fault |-> "none",
                finish |-> [k \in 1 .. task_count |-> FALSE],
                work |-> available,
                is_safe |-> TRUE])

\* --------------------------------------------------------- semaphore down
\* the return from sem.down() without the unit being moved to the caller
SemDownTailUnbooked(t, sem_id, list1, need1) ==
  /\ semaphore_list' = list1
  /\ semaphore_need' = need1
  /\ pc' = Set(pc, t, "user")
  /\ arg' = Set(arg, t, 0)
  /\ Return(t, 0)
  /\ inner_access' = DroppedAccess(t)
  /\ UNCHANGED <<checkVars, memVars, procVars, overflow_checks, fault, condvar_list, tasks,
                 deadlock_detect, mutex_list, mutex_available, mutex_allocation, mutex_need,
                 semaphore_available, semaphore_allocation>>

\* The bookkeeping after sem.down() has returned (lines 337-344).
SemDownTail(t, sem_id, list1, need1) ==
  IF \/ ~InRange(semaphore_available, sem_id)
     \/ ~InRange(need1, t)
     \/ ~InRange(Get(need1, t), sem_id)
  THEN Panic("index_out_of_bounds")
  ELSE IF /\ overflow_checks
          /\ \/ SubOverflows(Get(semaphore_available, sem_id))
             \/ SubOverflows(Get2(need1, t, sem_id))
             \/ AddOverflows(Get2(semaphore_allocation, t, sem_id), 1)
  THEN Panic("overflow")
  ELSE /\ semaphore_list' = list1
       /\ semaphore_available' =
            Set(semaphore_available, sem_id, Get(semaphore_available, sem_id) - 1)
       /\ semaphore_need' = Set2(need1, t, sem_id, Get2(need1, t, sem_id) - 1)
       /\ semaphore_allocation' =
            Set2(semaphore_allocation, t, sem_id, Get2(semaphore_allocation, t, sem_id) + 1)
       /\ pc' = Set(pc, t, "user")
       /\ arg' = Set(arg, t, 0)
       /\ Return(t, 0)
       /\ inner_access' = DroppedAccess(t)
       /\ UNCHANGED <<checkVars, memVars, procVars, overflow_checks, fault, condvar_list, tasks, deadlock_detect, mutex_list,
                      mutex_available, mutex_allocation, mutex_need>>

\* the unit is booked before the thread blocks
SemDownWaitEager(t, sem_id, need1) ==
  /\ semaphore_list' = Set(semaphore_list, sem_id,
                           [Get(semaphore_list, sem_id) EXCEPT !.wait_queue = Append(@, t)])
  /\ semaphore_need' = need1
  /\ semaphore_available' =
       Set(semaphore_available, sem_id, Get(semaphore_available, sem_id) - 1)
  /\ pc' = Set(pc, t, "semaphore_blocked")
  /\ arg' = Set(arg, t, sem_id)
  /\ inner_access' = DroppedAccess(t)
  /\ UNCHANGED <<checkVars, memVars, procVars, overflow_checks, fault, condvar_list, tasks,
                 deadlock_detect, mutex_list, mutex_available, mutex_allocation, mutex_need,
                 semaphore_allocation, ret>>

\* sem.down() finds the count at zero: the thread blocks on the wait queue
SemDownWait(t, sem_id, need1) ==
  /\ semaphore_list' = Set(semaphore_list, sem_id,
                           [Get(semaphore_list, sem_id) EXCEPT !.wait_queue = Append(@, t)])
  /\ semaphore_need' = need1
  /\ pc' = Set(pc, t, "semaphore_blocked")
  /\ arg' = Set(arg, t, sem_id)
  /\ inner_access' = DroppedAccess(t)
  /\ UNCHANGED <<checkVars, memVars, procVars, overflow_checks, fault, condvar_list, tasks, deadlock_detect, mutex_list,
                 mutex_available, mutex_allocation, mutex_need, semaphore_available,
                 semaphore_allocation, ret>>

\* return -0xDEAD: the incremented Need stays in process_inner
SemDownReject(t, need1) ==
  /\ semaphore_need' = need1
  /\ Return(t, DEAD)
  /\ inner_access' = DroppedAccess(t)
  /\ UNCHANGED <<checkVars, memVars, procVars, overflow_checks, fault, condvar_list, tasks, deadlock_detect, mutex_list,
                 mutex_available, mutex_allocation, mutex_need, semaphore_list,
                 semaphore_available, semaphore_allocation, pc, arg>>

\* sem.down() takes one unit
SemTake(list, sem_id) ==
  Set(list, sem_id, [Get(list, sem_id) EXCEPT !.count = @ - 1])

\* if process_inner.deadlock_detect { ... }
SemDetectEnabled == deadlock_detect

sys_semaphore_down(t, sem_id) ==
  /\ CanCall(t)
  /\ IF SlotFault(semaphore_list, sem_id) # "none"
     THEN Panic(SlotFault(semaphore_list, sem_id))
     ELSE IF SemDetectEnabled
             /\ (~InRange(semaphore_need, t) \/ ~InRange(Get(semaphore_need, t), sem_id))
     THEN Panic("index_out_of_bounds")
     ELSE IF SemDetectEnabled /\ overflow_checks
             /\ AddOverflows(Get2(semaphore_need, t, sem_id), 1)
     THEN Panic("overflow")
     ELSE LET need1 == IF SemDetectEnabled
                       THEN Set2(semaphore_need, t, sem_id,
                                 Get2(semaphore_need, t, sem_id) + 1)
                       ELSE semaphore_need
              chk == IF SemDetectEnabled
                     THEN SemSafetyCheck(need1, semaphore_allocation,
                                         semaphore_available, tasks)
                     ELSE [fault |-> "none", finish |-> <<>>, work |-> <<>>, is_safe |-> TRUE]
          IN IF chk.fault # "none" THEN Panic(chk.fault)
             ELSE IF Rejected(chk.finish) THEN SemDownReject(t, need1)
             ELSE IF Get(semaphore_list, sem_id).count = 0
             THEN SemDownWait(t, sem_id, need1)
             ELSE SemDownTail(t, sem_id, SemTake(semaphore_list, sem_id), need1)

\* A thread woken by up() returns from sem.down() when a unit is there, and blocks
\* again when another thread took it first.
semaphore_down_resume(t) ==
  /\ fault = "none"
  /\ t \in Tids
  /\ pc[t + 1] = "semaphore_ready"
  /\ IF Get(semaphore_list, arg[t + 1]).count = 0
     THEN SemDownWait(t, arg[t + 1], semaphore_need)
     ELSE SemDownTail(t, arg[t + 1], SemTake(semaphore_list, arg[t + 1]), semaphore_need)

\* ----------------------------------------------------------- semaphore up
\* sem.up(): the count goes up by one and the first waiter, if any, is woken
SemUpList(sem_id) ==
  LET s == Get(semaphore_list, sem_id)
  IN Set(semaphore_list, sem_id,
         [s EXCEPT !.count = @ + 1,
                   !.wait_queue = IF @ = <<>> THEN @ ELSE Tail(@)])

SemUpPc(sem_id) ==
  LET s == Get(semaphore_list, sem_id)
  IN IF s.wait_queue # <<>> THEN Set(pc, Head(s.wait_queue), "semaphore_ready") ELSE pc

sys_semaphore_up(t, sem_id) ==
  /\ CanCall(t)
  /\ IF SlotFault(semaphore_list, sem_id) # "none"
     THEN Panic(SlotFault(semaphore_list, sem_id))
     ELSE IF \/ ~InRange(semaphore_available, sem_id)
             \/ ~InRange(semaphore_allocation, t)
             \/ ~InRange(Get(semaphore_allocation, t), sem_id)
     THEN Panic("index_out_of_bounds")
     ELSE IF /\ overflow_checks
             /\ \/ AddOverflows(Get(semaphore_available, sem_id), 1)
                \/ SubOverflows(Get2(semaphore_allocation, t, sem_id))
     THEN Panic("overflow")
     ELSE /\ semaphore_available' =
               Set(semaphore_available, sem_id, Get(semaphore_available, sem_id) + 1)
          /\ semaphore_allocation' =
               Set2(semaphore_allocation, t, sem_id,
                    Get2(semaphore_allocation, t, sem_id) - 1)
          /\ semaphore_list' = SemUpList(sem_id)
          /\ pc' = SemUpPc(sem_id)
          /\ Return(t, 0)
          /\ inner_access' = DroppedAccess(t)
          /\ UNCHANGED <<checkVars, memVars, procVars, overflow_checks, fault, condvar_list, tasks, deadlock_detect, mutex_list,
                         mutex_available, mutex_allocation, mutex_need, semaphore_need, arg>>

\* ---------------------------------------------------------------- condvar
\* Some(Arc::new(Condvar::new()))
NewCondvar == [some |-> TRUE, wait_queue |-> <<>>]

sys_condvar_create(t) ==
  /\ CanCall(t)
  /\ LET id == FirstEmpty(condvar_list)
     IN IF id >= 0
        THEN /\ condvar_list' = Set(condvar_list, id, NewCondvar)
             /\ Return(t, id)
        ELSE /\ condvar_list' = Append(condvar_list, NewCondvar)
             /\ Return(t, Len(condvar_list))
  /\ inner_access' = DroppedAccess(t)
  /\ UNCHANGED <<checkVars, memVars, procVars, overflow_checks, fault, tasks, deadlock_detect, mutex_list,
                 mutex_available, mutex_allocation, mutex_need, semaphore_list,
                 semaphore_available, semaphore_allocation, semaphore_need, pc, arg>>

\* condvar.signal() wakes the first waiter
sys_condvar_signal(t, condvar_id) ==
  /\ CanCall(t)
  /\ IF SlotFault(condvar_list, condvar_id) # "none"
     THEN Panic(SlotFault(condvar_list, condvar_id))
     ELSE LET c == Get(condvar_list, condvar_id)
          IN /\ condvar_list' =
                  IF c.wait_queue = <<>> THEN condvar_list
                  ELSE Set(condvar_list, condvar_id, [c EXCEPT !.wait_queue = Tail(@)])
             /\ pc' = IF c.wait_queue = <<>> THEN pc
                      ELSE Set(pc, Head(c.wait_queue), "condvar_ready")
             /\ Return(t, 0)
             /\ inner_access' = DroppedAccess(t)
             /\ UNCHANGED <<checkVars, memVars, procVars, overflow_checks, fault, tasks, deadlock_detect,
                            mutex_list, mutex_available, mutex_allocation, mutex_need,
                            semaphore_list, semaphore_available, semaphore_allocation,
                            semaphore_need, arg>>

\* condvar.wait(mutex): the mutex is released and the thread blocks on the condvar
sys_condvar_wait(t, condvar_id, mutex_id) ==
  /\ CanCall(t)
  /\ IF SlotFault(condvar_list, condvar_id) # "none"
     THEN Panic(SlotFault(condvar_list, condvar_id))
     ELSE IF SlotFault(mutex_list, mutex_id) # "none"
     THEN Panic(SlotFault(mutex_list, mutex_id))
     ELSE /\ mutex_list' = MutexUnlockList(mutex_id)
          /\ condvar_list' = Set(condvar_list, condvar_id,
                                 [Get(condvar_list, condvar_id)
                                    EXCEPT !.wait_queue = Append(@, t)])
          /\ pc' = Set(MutexUnlockPc(t, mutex_id), t, "condvar_blocked")
          /\ arg' = Set(arg, t, mutex_id)
          /\ inner_access' = DroppedAccess(t)
          /\ UNCHANGED <<checkVars, memVars, procVars, overflow_checks, fault, tasks, deadlock_detect,
                         mutex_available, mutex_allocation, mutex_need, semaphore_list,
                         semaphore_available, semaphore_allocation, semaphore_need, ret>>

\* the signalled thread re-acquires the mutex inside condvar.wait and the syscall
\* returns 0; the matrices are not touched
condvar_wait_resume(t) ==
  /\ fault = "none"
  /\ t \in Tids
  /\ LET mutex_id == arg[t + 1]
         m == Get(mutex_list, mutex_id)
         acquired == pc[t + 1] = "condvar_mutex_ready" \/ ~m.locked
     IN /\ \/ pc[t + 1] = "condvar_ready"
           \/ pc[t + 1] = "condvar_mutex_ready"
           \/ pc[t + 1] = "condvar_mutex_spin" /\ ~m.locked
        /\ mutex_list' =
             IF acquired THEN Set(mutex_list, mutex_id, [m EXCEPT !.locked = TRUE])
             ELSE IF m.blocking
             THEN Set(mutex_list, mutex_id, [m EXCEPT !.wait_queue = Append(@, t)])
             ELSE mutex_list
        /\ pc' = Set(pc, t, IF acquired THEN "user"
                            ELSE IF m.blocking THEN "condvar_mutex_blocked"
                            ELSE "condvar_mutex_spin")
        /\ arg' = IF acquired THEN Set(arg, t, 0) ELSE arg
        /\ ret' = IF acquired THEN 0 ELSE ret
  /\ inner_access' = DroppedAccess(t)
  /\ UNCHANGED <<checkVars, memVars, procVars, overflow_checks, fault, condvar_list, tasks, deadlock_detect,
                 mutex_available, mutex_allocation, mutex_need, semaphore_list,
                 semaphore_available, semaphore_allocation, semaphore_need>>

\* sys_sleep: the thread is put on the timer list and blocked; process_inner is never
\* taken, and the RefMut on the task inner is a temporary of the trace! statement
sys_sleep(t) ==
  /\ CanCall(t)
  /\ pc' = Set(pc, t, "sleeping")
  /\ inner_access' = DroppedAccess(t)
  /\ UNCHANGED <<checkVars, memVars, procVars, overflow_checks, fault, condvar_list, tasks, deadlock_detect,
                 mutex_list, mutex_available, mutex_allocation, mutex_need, semaphore_list,
                 semaphore_available, semaphore_allocation, semaphore_need, arg, ret>>

\* the timer of t expires: block_current_and_run_next() returns and sys_sleep returns 0
timer_expire(t) ==
  /\ fault = "none"
  /\ t \in Tids
  /\ pc[t + 1] = "sleeping"
  /\ pc' = Set(pc, t, "user")
  /\ Return(t, 0)
  /\ inner_access' = DroppedAccess(t)
  /\ UNCHANGED <<checkVars, memVars, procVars, overflow_checks, fault, condvar_list, tasks, deadlock_detect,
                 mutex_list, mutex_available, mutex_allocation, mutex_need, semaphore_list,
                 semaphore_available, semaphore_allocation, semaphore_need, arg>>

\* ----------------------------------------------------------- process tree
\* live processes that can issue a syscall
Pids == DOMAIN procs

Running(p) == p \in Pids /\ ~procs[p].is_zombie

\* sys_spawn: found says whether get_app_data_by_name finds the program
sys_spawn(p, found) ==
  /\ fault = "none"
  /\ Running(p)
  /\ IF found
     THEN /\ procs' = [q \in Pids \cup {next_pid} |->
                         IF q = next_pid THEN NewProcess(p)
                         ELSE IF q = p
                         THEN [procs[p] EXCEPT !.children = Append(@, next_pid)]
                         ELSE procs[q]]
          /\ next_pid' = next_pid + 1
          /\ sched' = Append(sched, next_pid)
          /\ ret' = next_pid
     ELSE /\ ret' = -1
          /\ UNCHANGED <<procs, next_pid, sched>>
  /\ UNCHANGED <<checkVars, accessVars, memVars, overflow_checks, fault, tasks, deadlock_detect, mutex_list,
                 mutex_available, mutex_allocation, mutex_need, semaphore_list,
                 semaphore_available, semaphore_allocation, semaphore_need,
                 condvar_list, pc, arg>>

\* exit: the exit code is recorded, the process becomes a zombie and its children are
\* handed to the initial process
sys_exit(p, exit_code) ==
  /\ fault = "none"
  /\ Running(p)
  /\ p # 0
  /\ procs' = [q \in Pids |->
                 IF q = p
                 THEN [procs[p] EXCEPT !.is_zombie = TRUE, !.exit_code = exit_code,
                                       !.children = <<>>]
                 ELSE IF q = 0
                 THEN [procs[0] EXCEPT !.children = @ \o procs[p].children]
                 ELSE IF procs[q].parent = p THEN [procs[q] EXCEPT !.parent = 0]
                 ELSE procs[q]]
  /\ UNCHANGED <<checkVars, accessVars, memVars, next_pid, sched, overflow_checks, fault, syncVars>>

\* the wildcard forgotten
WaitMatchesExactly(pid, child) == pid = child

\* pid == -1 || pid as usize == p.getpid(): a negative pid other than -1 is, as usize,
\* no process id
WaitMatches(pid, child) == pid = -1 \/ pid = child

\* inner.children.iter().any(|p| pid == -1 || pid as usize == p.getpid())
WaitAnyChild(p, pid) ==
  \E k \in 1 .. Len(procs[p].children) : WaitMatches(pid, procs[p].children[k])

\* .enumerate().find(|(_, p)| p.is_zombie() && (pid == -1 || ...)): the index, 0 for None
WaitFindZombie(p, pid) ==
  LET hits == {k \in 1 .. Len(procs[p].children) :
                 /\ procs[procs[p].children[k]].is_zombie
                 /\ WaitMatches(pid, procs[p].children[k])}
  IN IF hits = {} THEN 0 ELSE CHOOSE k \in hits : \A j \in hits : k <= j

\* the first child removed instead of the one found
RemoveFirst(seq, idx) == Tail(seq)

\* inner.children.remove(idx)
RemoveAt(seq, idx) ==
  [k \in 1 .. (Len(seq) - 1) |-> IF k < idx THEN seq[k] ELSE seq[k + 1]]

\* the value sys_waitpid returns
WaitpidResult(p, pid) ==
  IF ~WaitAnyChild(p, pid) THEN -1
  ELSE IF WaitFindZombie(p, pid) = 0 THEN -2
  ELSE procs[p].children[WaitFindZombie(p, pid)]

sys_waitpid(p, pid) ==
  /\ fault = "none"
  /\ Running(p)
  /\ ret' = WaitpidResult(p, pid)
  /\ IF WaitAnyChild(p, pid) /\ WaitFindZombie(p, pid) # 0
     THEN LET idx == WaitFindZombie(p, pid)
              child == procs[p].children[idx]
          IN procs' = [q \in Pids \ {child} |->
                         IF q = p
                         THEN [procs[p] EXCEPT
                                 !.children = RemoveAt(procs[p].children, idx),
                                 !.exit_code_out = procs[child].exit_code]
                         ELSE procs[q]]
     ELSE UNCHANGED procs
  /\ UNCHANGED <<checkVars, accessVars, memVars, next_pid, sched, overflow_checks, fault, tasks, deadlock_detect,
                 mutex_list, mutex_available, mutex_allocation, mutex_need,
                 semaphore_list, semaphore_available, semaphore_allocation,
                 semaphore_need, condvar_list, pc, arg>>

\* ---------------------------------------------------------- mmap / munmap
\* A region is a half-open range [start, end) of virtual page numbers with the
\* permission bits it was requested with.
PAGE_SIZE == 4096

\* VirtAddr::aligned of the VirtAddr made from a usize: the truncation of the address
\* to the width of a virtual address keeps its low 12 bits
Aligned(start) == start % PAGE_SIZE = 0

\* VirtAddr::floor and VirtAddr::ceil
Floor(va) == va \div PAGE_SIZE

Ceil(va) == (va + PAGE_SIZE - 1) \div PAGE_SIZE

\* the low three bits alone are looked at
PortLowBitsZero(port) == port % 8 = 0

\* _port & !0x7 != 0 || _port & 0x7 == 0
PortInvalid(port) == port \div 8 # 0 \/ port % 8 = 0

Region(start_vpn, end_vpn, port) == [start |-> start_vpn, end |-> end_vpn, port |-> port]

Overlaps(r, start_vpn, end_vpn) == r.start < end_vpn /\ start_vpn < r.end

Within(r, start_vpn, end_vpn) == start_vpn <= r.start /\ r.end <= end_vpn

MappedPages(regions) == UNION {r.start .. (r.end - 1) : r \in regions}

\* mmap_current: an empty range is a success that registers nothing, a range that
\* overlaps a mapped region is refused, any other range becomes a new region
MmapCurrentResult(start_va, end_va) ==
  IF Floor(start_va) >= Ceil(end_va) THEN 0
  ELSE IF \E r \in memory_set : Overlaps(r, Floor(start_va), Ceil(end_va)) THEN -1
  ELSE 0

mmap_current(start_va, end_va, port) ==
  memory_set' =
    IF Floor(start_va) < Ceil(end_va) /\ MmapCurrentResult(start_va, end_va) = 0
    THEN memory_set \cup {Region(Floor(start_va), Ceil(end_va), port)}
    ELSE memory_set

\* munmap_current: an empty range is a success without effect; another range must be
\* made up exactly of mapped regions, which are then removed
MunmapCurrentResult(start_va, end_va) ==
  LET inside == {r \in memory_set : Within(r, Floor(start_va), Ceil(end_va))}
  IN IF Floor(start_va) >= Ceil(end_va) THEN 0
     ELSE IF MappedPages(inside) = Floor(start_va) .. (Ceil(end_va) - 1)
             /\ ~\E r \in memory_set \ inside : Overlaps(r, Floor(start_va), Ceil(end_va))
          THEN 0
          ELSE -1

munmap_current(start_va, end_va) ==
  memory_set' =
    IF Floor(start_va) < Ceil(end_va) /\ MunmapCurrentResult(start_va, end_va) = 0
    THEN {r \in memory_set : ~Within(r, Floor(start_va), Ceil(end_va))}
    ELSE memory_set

\* what sys_mmap / sys_munmap leave alone
MemFrame ==
  UNCHANGED <<checkVars, accessVars, procVars, overflow_checks, fault, tasks, deadlock_detect, mutex_list,
              mutex_available, mutex_allocation, mutex_need, semaphore_list,
              semaphore_available, semaphore_allocation, semaphore_need, condvar_list,
              pc, arg>>

\* The sum _start + _len is taken after the two checks; for the addresses drawn in
\* NextMem every aligned start is small, so the sum does not wrap.
sys_mmap(t, start, len, port) ==
  /\ CanCall(t)
  /\ IF ~Aligned(start)
     THEN Return(t, -1) /\ UNCHANGED memory_set
     ELSE IF PortInvalid(port)
          THEN Return(t, -1) /\ UNCHANGED memory_set
          ELSE /\ Return(t, MmapCurrentResult(start, start + len))
               /\ mmap_current(start, start + len, port)
  /\ MemFrame

sys_munmap(t, start, len) ==
  /\ CanCall(t)
  /\ IF ~Aligned(start)
     THEN Return(t, -1) /\ UNCHANGED memory_set
     ELSE /\ Return(t, MunmapCurrentResult(start, start + len))
          /\ munmap_current(start, start + len)
  /\ MemFrame

\* ------------------------------------------------------------ specification
\* every counter of the matrices within -c .. c
Bounded(c) ==
  /\ \A k \in 1 .. Len(mutex_available) : mutex_available[k] <= c
  /\ \A k \in 1 .. Len(semaphore_available) : semaphore_available[k] <= c
  /\ \A r \in 1 .. Len(mutex_need) : \A k \in 1 .. Len(mutex_need[r]) :
        /\ mutex_need[r][k] <= c /\ mutex_need[r][k] >= -c
        /\ mutex_allocation[r][k] <= c /\ mutex_allocation[r][k] >= -c
  /\ \A r \in 1 .. Len(semaphore_need) : \A k \in 1 .. Len(semaphore_need[r]) :
        /\ semaphore_need[r][k] <= c /\ semaphore_need[r][k] >= -c
        /\ semaphore_allocation[r][k] <= c /\ semaphore_allocation[r][k] >= -c
  /\ \A k \in 1 .. Len(semaphore_list) : semaphore_list[k].count <= c

Next ==
  \/ \E t \in Tids : tasks < MaxThreads /\ sys_thread_create(t)
  \/ \E t \in Tids : \E b \in BOOLEAN :
        /\ Len(mutex_list) < MaxMutexes /\ semaphore_list = <<>>
        /\ sys_mutex_create(t, b)
  \/ \E t \in Tids : \E n \in 0 .. MaxSemCount :
        /\ Len(semaphore_list) < MaxSems /\ mutex_list = <<>>
        /\ sys_semaphore_create(t, n)
  \/ \E t \in Tids : \E e \in 0 .. 2 : sys_enable_deadlock_detect(t, e)
  \/ \E t \in Tids : \E id \in 0 .. MaxMutexes : sys_mutex_lock(t, id) /\ Bounded(MaxCount)'
  \/ \E t \in Tids : mutex_lock_resume(t) /\ Bounded(MaxCount)'
  \/ \E t \in Tids : \E id \in 0 .. MaxMutexes : sys_mutex_unlock(t, id) /\ Bounded(MaxCount)'
  \/ \E t \in Tids : \E id \in 0 .. MaxSems : sys_semaphore_down(t, id) /\ Bounded(MaxCount)'
  \/ \E t \in Tids : semaphore_down_resume(t) /\ Bounded(MaxCount)'
  \/ \E t \in Tids : \E id \in 0 .. MaxSems : sys_semaphore_up(t, id) /\ Bounded(MaxCount)'
  \/ \E t \in Tids : \E id \in {0} : sys_condvar_signal(t, id)
  \/ \E t \in Tids : \E id \in {0} : \E m \in 0 .. MaxMutexes : sys_condvar_wait(t, id, m)

Spec == Init /\ [][Next]_vars

\* the kernel's books say that thread t holds a unit of mutex mutex_id
MutexHeldBy(t, mutex_id) ==
  /\ InRange(mutex_allocation, t)
  /\ InRange(Get(mutex_allocation, t), mutex_id)
  /\ Get2(mutex_allocation, t, mutex_id) >= 1

\* A process whose first syscall was enable_deadlock_detect(1) and that uses mutexes
\* only: detection is on for every mutex_lock of the run.  Its mutexes are blocking
\* ones; its threads lock any mutex but unlock only mutexes they hold.
InitDetect ==
  /\ overflow_checks \in BOOLEAN
  /\ fault = "none"
  /\ tasks = 1
  /\ deadlock_detect = TRUE
  /\ mutex_list = <<>>
  /\ mutex_available = <<>>
  /\ mutex_allocation = <<>>
  /\ mutex_need = <<>>
  /\ semaphore_list = <<>>
  /\ semaphore_available = <<>>
  /\ semaphore_allocation = <<>>
  /\ semaphore_need = <<>>
  /\ condvar_list = <<>>
  /\ pc = <<"user">>
  /\ arg = <<0>>
  /\ ret = 0
  /\ InitProcs
  /\ InitMem
  /\ InitAccess
  /\ InitCheck

NextDetect ==
  \/ \E t \in Tids : tasks < MaxThreads /\ sys_thread_create(t)
  \/ \E t \in Tids : \E b \in {TRUE} :
        Len(mutex_list) < MaxMutexesDetect /\ sys_mutex_create(t, b)
  \/ \E t \in Tids : \E id \in 0 .. (MaxMutexesDetect - 1) :
        sys_mutex_lock(t, id) /\ Bounded(MaxCountDetect)'
  \/ \E t \in Tids : mutex_lock_resume(t) /\ Bounded(MaxCountDetect)'
  \/ \E t \in Tids : \E id \in 0 .. (MaxMutexesDetect - 1) :
        MutexHeldBy(t, id) /\ sys_mutex_unlock(t, id)

SpecDetect == InitDetect /\ [][NextDetect]_vars

\* The cross-request configurations: a process that has created a second thread and
\* either two mutexes or one semaphore, holds nothing yet, and whose last syscall was
\* enable_deadlock_detect.  Its threads lock any mutex but unlock only mutexes they hold.
InitCross(detect, mutexes, semaphores) ==
  /\ overflow_checks \in BOOLEAN
  /\ fault = "none"
  /\ tasks = 2
  /\ deadlock_detect = detect
  /\ mutex_list \in mutexes
  /\ mutex_available = [k \in 1 .. Len(mutex_list) |-> 1]
  /\ mutex_allocation = <<Zeros(Len(mutex_list)), Zeros(Len(mutex_list))>>
  /\ mutex_need = <<Zeros(Len(mutex_list)), Zeros(Len(mutex_list))>>
  /\ semaphore_list \in semaphores
  /\ semaphore_available = [k \in 1 .. Len(semaphore_list) |-> semaphore_list[k].res_count]
  /\ semaphore_allocation = <<Zeros(Len(semaphore_list)), Zeros(Len(semaphore_list))>>
  /\ semaphore_need = <<Zeros(Len(semaphore_list)), Zeros(Len(semaphore_list))>>
  /\ condvar_list = <<>>
  /\ pc = <<"user", "user">>
  /\ arg = <<0, 0>>
  /\ ret = 0
  /\ InitProcs
  /\ InitMem
  /\ InitAccess
  /\ InitCheck

TwoMutexes == {<<NewMutex(b0), NewMutex(b1)>> : b0 \in BOOLEAN, b1 \in BOOLEAN}

OneSemaphore == {<<NewSemaphore(n)>> : n \in 0 .. MaxSemCount}

\* detection on from the first lock on, and never switched off.  With two threads and
\* two mutexes the check of sys_mutex_lock lets no request for a held mutex through, so
\* no thread is ever suspended in mutex.lock() and there is no resumption step.
InitCrossDetect == InitCross(TRUE, TwoMutexes, {<<>>})

NextCrossDetect ==
  \/ \E t \in Tids : \E id \in 0 .. 1 : sys_mutex_lock(t, id) /\ Bounded(MaxCountCross)'
  \/ \E t \in Tids : \E id \in 0 .. 1 : MutexHeldBy(t, id) /\ sys_mutex_unlock(t, id)

SpecCrossDetect == InitCrossDetect /\ [][NextCrossDetect]_vars

BlockingPair == {<<NewMutex(TRUE), NewMutex(TRUE)>>}

\* two semaphores, detection on and never switched off; a thread calls up for a unit
\* it holds
TwoSemaphores ==
  {<<NewSemaphore(a), NewSemaphore(b)>> : a \in 0 .. MaxSemCount, b \in 0 .. MaxSemCount}

InitSemDetect == InitCross(TRUE, {<<>>}, TwoSemaphores)

NextSemDetect ==
  \/ \E t \in Tids : \E id \in 0 .. 1 : sys_semaphore_down(t, id) /\ Bounded(MaxCountCross)'
  \/ \E t \in Tids : semaphore_down_resume(t) /\ Bounded(MaxCountCross)'
  \/ \E t \in Tids : \E id \in 0 .. 1 :
        Get2(semaphore_allocation, t, id) >= 1 /\ sys_semaphore_up(t, id)

SpecSemDetect == InitSemDetect /\ [][NextSemDetect]_vars

\* detection off at first, and switched on and off by the threads; the mutexes are
\* blocking ones
InitCrossToggle ==
  \/ InitCross(FALSE, BlockingPair, {<<>>})
  \/ InitCross(FALSE, {<<>>}, OneSemaphore)

NextCrossToggle ==
  \/ \E t \in Tids : \E e \in 0 .. 2 : sys_enable_deadlock_detect(t, e)
  \/ \E t \in Tids : \E id \in 0 .. 1 : sys_mutex_lock(t, id) /\ Bounded(MaxCountCross)'
  \/ \E t \in Tids : mutex_lock_resume(t) /\ Bounded(MaxCountCross)'
  \/ \E t \in Tids : \E id \in 0 .. 1 : MutexHeldBy(t, id) /\ sys_mutex_unlock(t, id)
  \/ \E t \in Tids : sys_semaphore_down(t, 0) /\ Bounded(MaxCountCross)'
  \/ \E t \in Tids : semaphore_down_resume(t) /\ Bounded(MaxCountCross)'
  \/ \E t \in Tids : sys_semaphore_up(t, 0) /\ Bounded(MaxCountCross)'

SpecCrossToggle == InitCrossToggle /\ [][NextCrossToggle]_vars

\* The suspension points: two threads of a process that has created either one blocking
\* mutex and one condvar, or one semaphore.  The threads switch detection on and off,
\* sleep, lock, wait on the condvar with the mutex they hold, signal, and use the
\* semaphore.
OneCondvar == {<<NewCondvar>>}

InitSuspendWith(mutexes, semaphores, condvars) ==
  /\ overflow_checks \in BOOLEAN
  /\ fault = "none"
  /\ tasks = 2
  /\ deadlock_detect = FALSE
  /\ mutex_list \in mutexes
  /\ mutex_available = [k \in 1 .. Len(mutex_list) |-> 1]
  /\ mutex_allocation = <<Zeros(Len(mutex_list)), Zeros(Len(mutex_list))>>
  /\ mutex_need = <<Zeros(Len(mutex_list)), Zeros(Len(mutex_list))>>
  /\ semaphore_list \in semaphores
  /\ semaphore_available = [k \in 1 .. Len(semaphore_list) |-> semaphore_list[k].res_count]
  /\ semaphore_allocation = <<Zeros(Len(semaphore_list)), Zeros(Len(semaphore_list))>>
  /\ semaphore_need = <<Zeros(Len(semaphore_list)), Zeros(Len(semaphore_list))>>
  /\ condvar_list \in condvars
  /\ pc = <<"user", "user">>
  /\ arg = <<0, 0>>
  /\ ret = 0
  /\ InitProcs
  /\ InitMem
  /\ InitAccess
  /\ InitCheck

InitSuspend ==
  \/ InitSuspendWith({<<NewMutex(TRUE)>>}, {<<>>}, OneCondvar)
  \/ InitSuspendWith({<<>>}, OneSemaphore, {<<>>})

NextSuspend ==
  \/ \E t \in Tids : \E e \in 0 .. 1 : sys_enable_deadlock_detect(t, e)
  \/ \E t \in Tids : sys_sleep(t)
  \/ \E t \in Tids : timer_expire(t)
  \/ \E t \in Tids : sys_mutex_lock(t, 0) /\ Bounded(MaxCountCross)'
  \/ \E t \in Tids : mutex_lock_resume(t) /\ Bounded(MaxCountCross)'
  \/ \E t \in Tids : MutexHeldBy(t, 0) /\ sys_mutex_unlock(t, 0)
  \/ \E t \in Tids : MutexHeldBy(t, 0) /\ sys_condvar_wait(t, 0, 0)
  \/ \E t \in Tids : condvar_list # <<>> /\ sys_condvar_signal(t, 0)
  \/ \E t \in Tids : condvar_wait_resume(t)
  \/ \E t \in Tids : sys_semaphore_down(t, 0) /\ Bounded(MaxCountCross)'
  \/ \E t \in Tids : semaphore_down_resume(t) /\ Bounded(MaxCountCross)'
  \/ \E t \in Tids : sys_semaphore_up(t, 0) /\ Bounded(MaxCountCross)'

SpecSuspend == InitSuspend /\ [][NextSuspend]_vars

\* The process tree alone: spawn, exit and waitpid by any running process.
ExitCodes == {1, 2}

NextProc ==
  \/ \E p \in Pids : \E found \in BOOLEAN :
        (~found \/ next_pid < MaxProcs) /\ sys_spawn(p, found)
  \/ \E p \in Pids : \E c \in ExitCodes : sys_exit(p, c)
  \/ \E p \in Pids : \E pid \in -2 .. MaxProcs : sys_waitpid(p, pid)

SpecProc == Init /\ [][NextProc]_vars

\* The address space alone: mmap and munmap by the thread of a fresh process, on the
\* first pages of the address space and on the last, unaligned, address 2^64 - 1.
Starts == {p * PAGE_SIZE + o : p \in 0 .. MaxPage, o \in {0, 1}} \cup {-1}

Lens == {0, 1, MaxPage * PAGE_SIZE}

Ports == {0, 1, 7, 9}

NextMem ==
  \/ \E t \in Tids : \E start \in Starts : \E len \in Lens : \E port \in Ports :
        sys_mmap(t, start, len, port)
  \/ \E t \in Tids : \E start \in Starts : \E len \in Lens : sys_munmap(t, start, len)

SpecMem == Init /\ [][NextMem]_vars

\* The create calls alone, on slot lists that may hold empty slots.  The slots are
\* Option values and the create calls look for a None among them; no syscall of the
\* source puts a None into a list, so the lists with empty slots are drawn here.  The
\* column of an empty slot holds a Stale value, what the resource that was removed left
\* behind; the process has one thread and holds no unit of any resource.
Stale == {1}

EmptyMutex == [some |-> FALSE, blocking |-> FALSE, locked |-> FALSE, wait_queue |-> <<>>]

EmptySemaphore == [some |-> FALSE, res_count |-> 0, count |-> 0, wait_queue |-> <<>>]

EmptyCondvar == [some |-> FALSE, wait_queue |-> <<>>]

SlotLists(objects, empty) ==
  UNION {[1 .. n -> objects \cup {empty}] : n \in 0 .. MaxSlots}

\* Available: the capacity of an existing resource, a stale value for an empty slot
AvailableFor(list, capacity) ==
  {v \in [1 .. Len(list) -> Stale \cup {capacity[k] : k \in 1 .. Len(list)}] :
     \A k \in 1 .. Len(list) : list[k].some => v[k] = capacity[k]}

\* Allocation and Need: no row before the first create, then the row of the one thread
RowsFor(list) ==
  IF list = <<>> THEN {<<>>}
  ELSE {<<row>> : row \in {v \in [1 .. Len(list) -> Stale] :
                             \A k \in 1 .. Len(list) : list[k].some => v[k] = 0}}

InitSlots ==
  /\ overflow_checks \in BOOLEAN
  /\ fault = "none"
  /\ tasks = 1
  /\ deadlock_detect = FALSE
  /\ \/ /\ mutex_list \in SlotLists({NewMutex(b) : b \in BOOLEAN}, EmptyMutex)
        /\ semaphore_list = <<>>
        /\ condvar_list = <<>>
     \/ /\ mutex_list = <<>>
        /\ semaphore_list \in
             SlotLists({NewSemaphore(n) : n \in 0 .. MaxSemCount}, EmptySemaphore)
        /\ condvar_list = <<>>
     \/ /\ mutex_list = <<>>
        /\ semaphore_list = <<>>
        /\ condvar_list \in SlotLists({NewCondvar}, EmptyCondvar)
  /\ mutex_available \in AvailableFor(mutex_list, [k \in 1 .. Len(mutex_list) |-> 1])
  /\ mutex_allocation \in RowsFor(mutex_list)
  /\ mutex_need \in RowsFor(mutex_list)
  /\ semaphore_available \in
       AvailableFor(semaphore_list,
                    [k \in 1 .. Len(semaphore_list) |-> semaphore_list[k].res_count])
  /\ semaphore_allocation \in RowsFor(semaphore_list)
  /\ semaphore_need \in RowsFor(semaphore_list)
  /\ pc = <<"user">>
  /\ arg = <<0>>
  /\ ret = 0
  /\ InitProcs
  /\ InitMem
  /\ InitAccess
  /\ InitCheck

\* room for one more object: an empty slot, or a list shorter than MaxSlots
HasRoom(list) == FirstEmpty(list) >= 0 \/ Len(list) < MaxSlots

NextSlots ==
  \/ \E t \in Tids : tasks < MaxThreads /\ sys_thread_create(t)
  \/ \E t \in Tids : \E b \in BOOLEAN :
        /\ HasRoom(mutex_list) /\ semaphore_list = <<>> /\ condvar_list = <<>>
        /\ sys_mutex_create(t, b)
  \/ \E t \in Tids : \E n \in 0 .. MaxSemCount :
        /\ HasRoom(semaphore_list) /\ mutex_list = <<>> /\ condvar_list = <<>>
        /\ sys_semaphore_create(t, n)
  \/ \E t \in Tids :
        /\ HasRoom(condvar_list) /\ mutex_list = <<>> /\ semaphore_list = <<>>
        /\ sys_condvar_create(t)

SpecSlots == InitSlots /\ [][NextSlots]_vars

\* The safety checks alone, one pass of the loop { ... } per step, on any Need,
\* Allocation and Available with entries 0 or 1: the check of sys_mutex_lock for up to
\* MaxCheckRows threads and MaxCheckCols mutexes, that of sys_semaphore_down for up to
\* MaxCheckRows threads and one semaphore; finish has one entry per thread.  No sum of
\* such entries overflows, so the build profile makes no difference here.  The handler
\* runs on the CPU from the first pass to the decision without a suspension point, so
\* a pass that can be taken is taken.
Units == {0, 1}

CheckStart(kind, tid, need, alloc, available) ==
  [kind |-> kind, tid |-> tid, need |-> need, alloc |-> alloc,
   st |-> [fault |-> "none", finish |-> [k \in 1 .. Len(need) |-> FALSE],
           work |-> available, is_safe |-> TRUE],
   passes |-> 0, done |-> FALSE]

\* a matrix whose row of thread tid is row and whose other rows are zero
OnlyRow(rows, tid, row) == [r \in 1 .. rows |-> IF r = tid + 1 THEN row ELSE Zeros(Len(row))]

InitCheckLoop ==
  /\ overflow_checks = FALSE
  /\ fault = "none"
  /\ InitSync
  /\ InitProcs
  /\ InitMem
  /\ InitAccess
  /\ InitCheck

\* more passes than any check needs
CheckPassCap == MaxCheckRows + 2

CheckFrame == UNCHANGED <<overflow_checks, fault, syncVars, procVars, memVars, accessVars>>

\* The state a handler enters its safety check in is drawn in two steps: the kind of
\* check, the caller, Available and Need first, Allocation next.  The check of
\* sys_mutex_lock reads the rows of the caller tid alone, that of sys_semaphore_down
\* reads every row.
check_start ==
  /\ check.kind = "none"
  /\ \E rows \in 1 .. MaxCheckRows :
       \/ \E cols \in 1 .. MaxCheckCols : \E available \in [1 .. cols -> Units] :
             \E tid \in 0 .. (rows - 1) : \E need \in [1 .. cols -> Units] :
               check' = CheckStart("mutex_inputs", tid, OnlyRow(rows, tid, need),
                                   OnlyRow(rows, tid, Zeros(cols)), available)
       \/ \E available \in [1 .. 1 -> Units] : \E need \in [1 .. rows -> [1 .. 1 -> Units]] :
             check' = CheckStart("semaphore_inputs", 0, need,
                                 [r \in 1 .. rows |-> Zeros(1)], available)
  /\ CheckFrame

check_inputs ==
  /\ LET rows == Len(check.need)
         cols == Len(check.st.work)
     IN \/ /\ check.kind = "mutex_inputs"
           /\ \E alloc \in [1 .. cols -> Units] :
                 check' = [check EXCEPT !.kind = "mutex",
                                        !.alloc = OnlyRow(rows, check.tid, alloc)]
        \/ /\ check.kind = "semaphore_inputs"
           /\ \E alloc \in [1 .. rows -> [1 .. cols -> Units]] :
                 check' = [check EXCEPT !.kind = "semaphore", !.alloc = alloc]
  /\ CheckFrame

mutex_check_pass ==
  /\ check.kind = "mutex" /\ ~check.done /\ check.passes < CheckPassCap
  /\ \E pass \in {MutexCheckPass(Len(check.need), check.tid, check.need, check.alloc,
                                 check.st)} :
       check' = [check EXCEPT !.st = pass.st, !.passes = @ + 1, !.done = pass.exit]
  /\ CheckFrame

semaphore_check_pass ==
  /\ check.kind = "semaphore" /\ ~check.done /\ check.passes < CheckPassCap
  /\ \E pass \in {SemCheckIteration(Len(check.need), check.need, check.alloc, check.st)} :
       check' = [check EXCEPT !.st = pass.st, !.passes = @ + 1, !.done = pass.exit]
  /\ CheckFrame

NextCheckLoop ==
  \/ check_start
  \/ check_inputs
  \/ mutex_check_pass
  \/ semaphore_check_pass

SpecCheckLoop ==
  /\ InitCheckLoop
  /\ [][NextCheckLoop]_vars
  /\ WF_vars(mutex_check_pass)
  /\ WF_vars(semaphore_check_pass)

\* ==================================================================== claims
\* thread t is suspended inside mutex.lock() of mutex mutex_id
SuspendedInLock(t, mutex_id) ==
  /\ t \in Tids
  /\ pc[t + 1] \in {"mutex_blocked", "mutex_spin"}
  /\ arg[t + 1] = mutex_id

\* thread t holds mutex mutex_id: the mutex is locked and the books show the unit with t
HoldsMutex(t, mutex_id) ==
  /\ InRange(mutex_list, mutex_id)
  /\ Get(mutex_list, mutex_id).locked
  /\ MutexHeldBy(t, mutex_id)
  /\ Get(mutex_available, mutex_id) = 0

\* the step returns -0xDEAD to its caller
ReturnsDead == ret' = DEAD /\ pc' = pc /\ fault' = fault

\* two threads, two mutexes, T0 holds m0, T1 holds m1, and T0 has asked for m1
CrossScenario ==
  /\ fault = "none"
  /\ tasks = 2
  /\ Len(mutex_list) = 2
  /\ HoldsMutex(0, 0)
  /\ HoldsMutex(1, 1)
  /\ Get2(mutex_need, 0, 1) >= 1
  /\ pc[2] = "user"

\* C1: with detection enabled, in the cross scenario the mutex_lock(m0) of T1 returns
\* -0xDEAD and T1 is not blocked on m0.
C1_CrossRequestRejected ==
  [][(deadlock_detect /\ CrossScenario /\ sys_mutex_lock(1, 0))
       => (ret' = DEAD /\ fault' = "none" /\ pc'[2] = "user"
           /\ Get(mutex_list, 0).wait_queue' = Get(mutex_list, 0).wait_queue)]_vars

C1_Witness ==
  /\ deadlock_detect
  /\ CrossScenario
  /\ ret = DEAD
  /\ Get2(mutex_need, 1, 0) >= 1

\* a non-empty set of threads, each suspended in mutex_lock on a mutex that another
\* thread of the set holds
MutexDeadlock(S) ==
  /\ S # {}
  /\ \A t \in S : \E u \in S \ {t} :
        /\ SuspendedInLock(t, arg[t + 1])
        /\ HoldsMutex(u, arg[t + 1])

\* C2: with detection enabled from the start, no reachable state has a set of threads
\* that are all blocked in mutex_lock, each on a mutex held by another of the set.
C2_NoMutexDeadlock ==
  ~ \E S \in SUBSET Tids : MutexDeadlock(S)

matrices == <<mutex_available, mutex_allocation, mutex_need,
              semaphore_available, semaphore_allocation, semaphore_need>>

\* C3: a mutex_lock or semaphore_down that returns -0xDEAD leaves Available,
\* Allocation and Need of both classes as they were, and its caller was not blocked.
C3_RejectionLeavesMatrices ==
  [][((\E t \in Tids : \E id \in 0 .. MaxMutexes :
          sys_mutex_lock(t, id) \/ sys_semaphore_down(t, id)) /\ ReturnsDead)
       => UNCHANGED matrices]_vars

\* sum of column id over the rows of m
RECURSIVE ColumnSum(_, _, _)
ColumnSum(m, id, r) ==
  IF r > Len(m) THEN 0 ELSE Get2(m, r - 1, id) + ColumnSum(m, id, r + 1)

\* no counter of column id holds a wrapped value
ColumnInRange(m, id) == \A r \in 1 .. Len(m) : m[r][id + 1] >= 0

\* C4: Available[r] plus the sum of Allocation[t][r] over the threads is the capacity
\* of r: 1 for a mutex, the initial count for a semaphore.
C4_UnitsConserved ==
  /\ \A id \in 0 .. (Len(mutex_list) - 1) :
        /\ ColumnInRange(mutex_allocation, id)
        /\ Get(mutex_available, id) >= 0
        /\ Get(mutex_available, id) + ColumnSum(mutex_allocation, id, 1) = 1
  /\ \A id \in 0 .. (Len(semaphore_list) - 1) :
        /\ ColumnInRange(semaphore_allocation, id)
        /\ Get(semaphore_available, id) >= 0
        /\ Get(semaphore_available, id) + ColumnSum(semaphore_allocation, id, 1)
             = Get(semaphore_list, id).res_count

\* C5: Need[t][r] + Allocation[t][r] is at most the capacity of r.
C5_NeedPlusAllocationBounded ==
  /\ \A t \in 0 .. (Len(mutex_need) - 1) : \A id \in 0 .. (Len(mutex_list) - 1) :
        /\ Get2(mutex_need, t, id) >= 0
        /\ Get2(mutex_allocation, t, id) >= 0
        /\ Get2(mutex_need, t, id) + Get2(mutex_allocation, t, id) <= 1
  /\ \A t \in 0 .. (Len(semaphore_need) - 1) : \A id \in 0 .. (Len(semaphore_list) - 1) :
        /\ Get2(semaphore_need, t, id) >= 0
        /\ Get2(semaphore_allocation, t, id) >= 0
        /\ Get2(semaphore_need, t, id) + Get2(semaphore_allocation, t, id)
             <= Get(semaphore_list, id).res_count

\* both threads of a two-thread process are suspended in mutex_lock, T0 on m1 and T1 on
\* m0, and both mutexes are locked
CrossBlocked ==
  /\ fault = "none"
  /\ tasks = 2
  /\ Len(mutex_list) = 2
  /\ Get(mutex_list, 0).locked
  /\ Get(mutex_list, 1).locked
  /\ SuspendedInLock(0, 1)
  /\ SuspendedInLock(1, 0)

\* C6: while detection is disabled no mutex_lock or semaphore_down returns -0xDEAD; in
\* the cross scenario the second request blocks too, and then neither call returns.
C6_DisabledNeverRejects ==
  [][/\ (~deadlock_detect
         /\ \E t \in Tids : \E id \in 0 .. MaxMutexes :
              sys_mutex_lock(t, id) \/ sys_semaphore_down(t, id))
        => ~ReturnsDead
     /\ (/\ ~deadlock_detect
         /\ tasks = 2 /\ Len(mutex_list) = 2
         /\ Get(mutex_list, 0).locked /\ Get(mutex_list, 1).locked
         /\ SuspendedInLock(0, 1)
         /\ sys_mutex_lock(1, 0))
        => CrossBlocked' /\ ret' = ret
     /\ CrossBlocked => CrossBlocked' /\ ret' = ret]_vars

C6_Witness == CrossBlocked /\ ~deadlock_detect

\* C7: with detection enabled, mutex_lock on an existing mutex finishes its safety check
\* without a kernel fault, and returns 0 or -0xDEAD when it returns.
C7_LockCheckNeverFaults ==
  [][\A t \in Tids : \A id \in 0 .. (Len(mutex_list) - 1) :
       (deadlock_detect /\ Get(mutex_list, id).some /\ sys_mutex_lock(t, id))
         => (fault' = "none" /\ (pc'[t + 1] = "user" => ret' \in {0, DEAD}))]_vars

\* id names no object of the slot list: beyond its end, or an empty slot
UnknownId(list, id) == ~InRange(list, id) \/ ~Get(list, id).some

slotLists == <<mutex_list, semaphore_list, condvar_list>>

\* C8: mutex_lock, mutex_unlock, semaphore_up, semaphore_down, condvar_signal and
\* condvar_wait with an id that names no object return a negative value, do not abort
\* the kernel and leave the slot lists and the matrices unchanged.
C8_UnknownIdIsAnError ==
  [][\A t \in Tids : \A id \in 0 .. MaxMutexes :
       (\/ UnknownId(mutex_list, id)
             /\ (sys_mutex_lock(t, id) \/ sys_mutex_unlock(t, id))
        \/ UnknownId(semaphore_list, id)
             /\ (sys_semaphore_up(t, id) \/ sys_semaphore_down(t, id))
        \/ UnknownId(condvar_list, id)
             /\ (sys_condvar_signal(t, id)
                 \/ \E m \in 0 .. MaxMutexes : sys_condvar_wait(t, id, m))
        \/ UnknownId(mutex_list, id)
             /\ \E c \in 0 .. (Len(condvar_list) - 1) : sys_condvar_wait(t, c, id))
         => (fault' = "none" /\ ret' < 0 /\ UNCHANGED <<slotLists, matrices>>)]_vars

\* the children of p that waitpid(pid) is about
MatchingChildren(p, pid) ==
  {procs[p].children[k] : k \in {j \in 1 .. Len(procs[p].children) :
                                    pid = -1 \/ pid = procs[p].children[j]}}

\* C9: waitpid(pid) returns -1 exactly when no child matches pid, -2 exactly when some
\* child matches and no matching child is a zombie, and otherwise the pid of a matching
\* zombie child.
C9_WaitpidResult ==
  [][\A p \in Pids : \A pid \in -2 .. MaxProcs :
       sys_waitpid(p, pid) =>
         LET matching == MatchingChildren(p, pid)
             zombies == {c \in matching : procs[c].is_zombie}
         IN /\ (ret' = -1) <=> (matching = {})
            /\ (ret' = -2) <=> (matching # {} /\ zombies = {})
            /\ (matching # {} /\ zombies # {}) => ret' \in zombies]_vars

\* waitpid has answered -2: a running child matches and no zombie does
C9_Witness ==
  /\ ret = -2
  /\ \E p \in Pids : \E k \in 1 .. Len(procs[p].children) :
        ~procs[procs[p].children[k]].is_zombie

\* C10: a successful waitpid writes the child's exit code to the caller's output
\* location and removes exactly that child, the others keeping their order; waitpid with
\* that pid then returns -1; a waitpid that returns -1 or -2 leaves the children as
\* they were.
C10_WaitpidReaps ==
  [][\A p \in Pids : \A pid \in -2 .. MaxProcs :
       sys_waitpid(p, pid) =>
         IF ret' >= 0
         THEN /\ procs'[p].exit_code_out = procs[ret'].exit_code
              /\ procs'[p].children =
                   SelectSeq(procs[p].children, LAMBDA c : c # ret')
              /\ Len(procs'[p].children) = Len(procs[p].children) - 1
              /\ \A c \in Pids : ret' = c => WaitpidResult(p, c)' = -1
         ELSE procs'[p].children = procs[p].children]_vars

\* a process with two children left has just reaped a third one, which was neither the
\* first nor the last of its list, and got its exit code
C10_Witness ==
  \E p \in Pids :
    /\ Len(procs[p].children) = 2
    /\ ret > procs[p].children[1]
    /\ ret < procs[p].children[2]
    /\ ret \notin Pids
    /\ procs[p].exit_code_out \in ExitCodes

\* C11: mmap(start, 0, perm) with valid permission bits and munmap(start, 0) return 0 and
\* leave the address space as it was, for every start, aligned or not.
C11_ZeroLengthIsNoOp ==
  [][\A t \in Tids : \A start \in Starts :
       (\/ \E port \in Ports : ~PortInvalid(port) /\ sys_mmap(t, start, 0, port)
        \/ sys_munmap(t, start, 0))
       => (ret' = 0 /\ memory_set' = memory_set)]_vars

\* C12: mmap with a non-zero length and a start that is not page-aligned, or permission
\* bits outside the low three, or all of the low three zero, returns -1 and leaves the
\* address space as it was, without a kernel fault.
C12_MmapRejectsBadArguments ==
  [][\A t \in Tids : \A start \in Starts : \A len \in Lens \ {0} : \A port \in Ports :
       (/\ start % PAGE_SIZE # 0 \/ port \div 8 # 0 \/ port % 8 = 0
        /\ sys_mmap(t, start, len, port))
       => (ret' = -1 /\ memory_set' = memory_set /\ fault' = "none")]_vars

\* a call has been answered -1 while regions are mapped
C12_Witness == ret = -1 /\ memory_set # {} /\ fault = "none"

\* the slots of a list that hold no object
EmptySlots(list) == {k \in 1 .. Len(list) : ~list[k].some}

\* a create call on list that returned id and left list2, new being the object made
SlotChoice(list, list2, id, new) ==
  /\ IF EmptySlots(list) # {}
     THEN /\ id + 1 \in EmptySlots(list)
          /\ \A k \in EmptySlots(list) : id + 1 <= k
          /\ Len(list2) = Len(list)
     ELSE /\ id = Len(list)
          /\ Len(list2) = Len(list) + 1
  /\ list2[id + 1] = new
  /\ \A k \in 1 .. Len(list) : list[k].some => (list2[k] = list[k] /\ k # id + 1)

\* C13: mutex_create, semaphore_create and condvar_create return the lowest index of an
\* empty slot if there is one, the list keeping its length, and the old length otherwise,
\* the list growing by one; the slot of the returned id holds the new object, and no
\* occupied slot is overwritten or has its id given out again.
C13_CreateChoosesSlot ==
  [][/\ \A t \in Tids : \A b \in BOOLEAN :
          sys_mutex_create(t, b) => SlotChoice(mutex_list, mutex_list', ret', NewMutex(b))
     /\ \A t \in Tids : \A n \in 0 .. MaxSemCount :
          sys_semaphore_create(t, n)
            => SlotChoice(semaphore_list, semaphore_list', ret', NewSemaphore(n))
     /\ \A t \in Tids :
          sys_condvar_create(t) => SlotChoice(condvar_list, condvar_list', ret', NewCondvar)]_vars

\* the one thread of the process got id 1 from mutex_create although slot 2 was empty
\* as well: the list had three slots and the lower of two empty ones was taken
C13_Witness ==
  /\ tasks = 1
  /\ ret = 1
  /\ Len(mutex_list) = 3
  /\ mutex_list[1].some /\ mutex_list[2].some /\ ~mutex_list[3].some

\* Available[id] one more and Allocation[t][id] one less as unsigned values (neither
\* counter wraps), every other entry as before
ReleaseEffect(available, available2, allocation, allocation2, t, id) ==
  /\ ~AddOverflows(Get(available, id), 1)
  /\ ~SubOverflows(Get2(allocation, t, id))
  /\ available2 = Set(available, id, Get(available, id) + 1)
  /\ allocation2 = Set2(allocation, t, id, Get2(allocation, t, id) - 1)

\* C14: mutex_unlock and semaphore_up on an existing resource return 0 in every state,
\* take 1 from Allocation[t][r], add 1 to Available[r] and leave every Need entry and
\* every other Allocation and Available entry as it was.
C14_ReleaseAlwaysSucceeds ==
  [][\A t \in Tids : \A id \in 0 .. MaxMutexes :
       /\ (~UnknownId(mutex_list, id) /\ sys_mutex_unlock(t, id))
            => /\ ret' = 0 /\ fault' = "none"
               /\ ReleaseEffect(mutex_available, mutex_available',
                                mutex_allocation, mutex_allocation', t, id)
               /\ UNCHANGED <<mutex_need, semaphore_available, semaphore_allocation,
                              semaphore_need>>
       /\ (~UnknownId(semaphore_list, id) /\ sys_semaphore_up(t, id))
            => /\ ret' = 0 /\ fault' = "none"
               /\ ReleaseEffect(semaphore_available, semaphore_available',
                                semaphore_allocation, semaphore_allocation', t, id)
               /\ UNCHANGED <<semaphore_need, mutex_available, mutex_allocation,
                              mutex_need>>]_vars

\* The reference safety check (Banker's algorithm) on n threads: a pass goes over the
\* threads in order and marks each unmarked thread whose Need row fits into Work, adding
\* its Allocation row to Work; passes are repeated until one marks no thread.
RefRowFits(u, need, work) ==
  \A c \in 0 .. (Len(work) - 1) : ULe(Get2(need, u, c), Get(work, c))

RECURSIVE RefPass(_, _, _, _, _)
RefPass(u, n, need, alloc, st) ==
  IF u >= n THEN st
  ELSE IF ~Get(st.finish, u) /\ RefRowFits(u, need, st.work)
  THEN RefPass(u + 1, n, need, alloc,
               [finish |-> Set(st.finish, u, TRUE),
                work |-> [k \in 1 .. Len(st.work) |-> st.work[k] + alloc[u + 1][k]],
                marked |-> TRUE])
  ELSE RefPass(u + 1, n, need, alloc, st)

RECURSIVE RefLoop(_, _, _, _)
RefLoop(n, need, alloc, st) ==
  LET after == RefPass(0, n, need, alloc, [st EXCEPT !.marked = FALSE])
  IN IF after.marked THEN RefLoop(n, need, alloc, after) ELSE after

\* some thread stays unmarked
RefUnsafe(need, alloc, available, n) ==
  LET end == RefLoop(n, need, alloc,
                     [finish |-> [k \in 1 .. n |-> FALSE], work |-> available,
                      marked |-> FALSE])
  IN \E u \in 0 .. (n - 1) : ~Get(end.finish, u)

\* C15: with detection enabled, mutex_lock by t on an existing mutex m returns -0xDEAD
\* exactly when the reference safety check fails on the state with Need[t][m] + 1.
C15_MutexLockIsBanker ==
  [][\A t \in Tids : \A id \in 0 .. MaxMutexes :
       (deadlock_detect /\ ~UnknownId(mutex_list, id) /\ sys_mutex_lock(t, id))
       => (ReturnsDead <=>
             RefUnsafe(Set2(mutex_need, t, id, Get2(mutex_need, t, id) + 1),
                       mutex_allocation, mutex_available, tasks))]_vars

\* C16: with detection enabled, semaphore_down by t on an existing semaphore s returns
\* -0xDEAD exactly when the reference safety check leaves a thread unmarked on the state
\* with Need[t][s] + 1; otherwise the call goes on to the underlying down, where it
\* takes a unit or blocks.
C16_SemaphoreDownIsBanker ==
  [][\A t \in Tids : \A id \in 0 .. MaxSems :
       (deadlock_detect /\ ~UnknownId(semaphore_list, id) /\ sys_semaphore_down(t, id))
       => IF RefUnsafe(Set2(semaphore_need, t, id, Get2(semaphore_need, t, id) + 1),
                       semaphore_allocation, semaphore_available, tasks)
          THEN ReturnsDead
          ELSE /\ fault' = "none"
               /\ \/ pc'[t + 1] = "semaphore_blocked" /\ ret' = ret
                  \/ /\ ret' = 0
                     /\ Get(semaphore_list, id).count' = Get(semaphore_list, id).count - 1]_vars

\* a down was rejected in a process with two semaphores
C16_Witness ==
  /\ deadlock_detect
  /\ fault = "none"
  /\ Len(semaphore_list) = 2
  /\ ret = DEAD
  /\ \E t \in Tids : \E id \in 0 .. 1 : Get2(semaphore_need, t, id) >= 1

\* Available[id] one less and Allocation[t][id] one more, every other entry as before
GrantEffect(available, available2, allocation, allocation2, t, id) ==
  /\ available2 = Set(available, id, Get(available, id) - 1)
  /\ allocation2 = Set2(allocation, t, id, Get2(allocation, t, id) + 1)

\* C17: a mutex_lock or semaphore_down that is not rejected (and meets no kernel fault)
\* leaves Available and Allocation alone as long as the thread has not acquired the
\* primitive, and moves the unit when it has; with detection enabled Need[t][r] is one
\* more while the thread waits and is back at its old value at the grant.
C17_BookedAfterAcquire ==
  [][\A t \in Tids : \A id \in 0 .. MaxMutexes :
       /\ (/\ ~UnknownId(mutex_list, id) /\ sys_mutex_lock(t, id)
           /\ fault' = "none" /\ ~ReturnsDead)
          => IF pc'[t + 1] = "user"
             THEN /\ ~Get(mutex_list, id).locked /\ Get(mutex_list, id).locked'
                  /\ GrantEffect(mutex_available, mutex_available',
                                 mutex_allocation, mutex_allocation', t, id)
                  /\ deadlock_detect => mutex_need' = mutex_need
             ELSE /\ Get(mutex_list, id).locked
                  /\ UNCHANGED <<mutex_available, mutex_allocation>>
                  /\ deadlock_detect =>
                       mutex_need' = Set2(mutex_need, t, id, Get2(mutex_need, t, id) + 1)
       /\ (/\ pc[t + 1] \in {"mutex_ready", "mutex_spin"} /\ arg[t + 1] = id
           /\ mutex_lock_resume(t) /\ fault' = "none")
          => /\ pc'[t + 1] = "user" /\ Get(mutex_list, id).locked'
             /\ GrantEffect(mutex_available, mutex_available',
                            mutex_allocation, mutex_allocation', t, id)
             /\ mutex_need' = Set2(mutex_need, t, id, Get2(mutex_need, t, id) - 1)
       /\ (/\ ~UnknownId(semaphore_list, id) /\ sys_semaphore_down(t, id)
           /\ fault' = "none" /\ ~ReturnsDead)
          => IF pc'[t + 1] = "user"
             THEN /\ Get(semaphore_list, id).count' = Get(semaphore_list, id).count - 1
                  /\ GrantEffect(semaphore_available, semaphore_available',
                                 semaphore_allocation, semaphore_allocation', t, id)
                  /\ deadlock_detect => semaphore_need' = semaphore_need
             ELSE /\ Get(semaphore_list, id).count = 0
                  /\ UNCHANGED <<semaphore_available, semaphore_allocation>>
                  /\ deadlock_detect =>
                       semaphore_need' =
                         Set2(semaphore_need, t, id, Get2(semaphore_need, t, id) + 1)
       /\ (/\ pc[t + 1] = "semaphore_ready" /\ arg[t + 1] = id
           /\ semaphore_down_resume(t) /\ fault' = "none")
          => IF pc'[t + 1] = "user"
             THEN /\ Get(semaphore_list, id).count' = Get(semaphore_list, id).count - 1
                  /\ GrantEffect(semaphore_available, semaphore_available',
                                 semaphore_allocation, semaphore_allocation', t, id)
                  /\ semaphore_need' =
                       Set2(semaphore_need, t, id, Get2(semaphore_need, t, id) - 1)
             ELSE UNCHANGED <<semaphore_available, semaphore_allocation, semaphore_need>>]_vars

\* with detection on a thread waits in semaphore_down: its request is in Need and no
\* unit has been booked for it
C17_Witness ==
  /\ deadlock_detect
  /\ fault = "none"
  /\ \E t \in Tids :
       /\ pc[t + 1] = "semaphore_blocked"
       /\ Get2(semaphore_need, t, arg[t + 1]) = 1
       /\ Get2(semaphore_allocation, t, arg[t + 1]) = 0
       /\ Get(semaphore_available, arg[t + 1]) = 0

MatrixShape(list, available, allocation, need) ==
  /\ Len(available) = Len(list)
  /\ \A r \in 1 .. Len(allocation) : Len(allocation[r]) = Len(list)
  /\ \A r \in 1 .. Len(need) : Len(need[r]) = Len(list)

\* Available[id] is the capacity, and column id of Allocation and Need is 0 in every row
FreshColumn(id, capacity, available, allocation, need) ==
  /\ InRange(available, id) /\ Get(available, id) = capacity
  /\ \A r \in 1 .. Len(allocation) : allocation[r][id + 1] = 0
  /\ \A r \in 1 .. Len(need) : need[r][id + 1] = 0

\* C19: after every mutex_create / semaphore_create, Available of the class is as long
\* as its slot list and so is every row of Allocation and Need; for the id returned,
\* Available is the capacity (1 for a mutex, the initial count for a semaphore) and the
\* column of Allocation and Need is 0 in every row.
C19_CreateKeepsShapes ==
  [][/\ \A t \in Tids : \A b \in BOOLEAN :
          sys_mutex_create(t, b)
            => /\ MatrixShape(mutex_list', mutex_available', mutex_allocation', mutex_need')
               /\ FreshColumn(ret', 1, mutex_available', mutex_allocation', mutex_need')
     /\ \A t \in Tids : \A n \in 0 .. MaxSemCount :
          sys_semaphore_create(t, n)
            => /\ MatrixShape(semaphore_list', semaphore_available',
                              semaphore_allocation', semaphore_need')
               /\ FreshColumn(ret', n, semaphore_available',
                              semaphore_allocation', semaphore_need')]_vars

\* two threads, and the create calls have filled all three semaphore slots, the last
\* call returning id 1
C19_Witness ==
  /\ tasks = 2
  /\ ret = 1
  /\ Len(semaphore_list) = MaxSlots
  /\ \A k \in 1 .. MaxSlots : semaphore_list[k].some
  /\ Len(semaphore_need) = 2
  /\ semaphore_available[2] = semaphore_list[2].res_count

\* every process in the children list of p exists and names p as its parent
ChildrenNameParent ==
  \A p \in Pids : \A k \in 1 .. Len(procs[p].children) :
    /\ procs[p].children[k] \in Pids
    /\ procs[procs[p].children[k]].parent = p

\* how often pid occurs in the sequence seq
Occurrences(seq, pid) == Cardinality({k \in 1 .. Len(seq) : seq[k] = pid})

\* C20: every process in a children list has that process as its parent; a successful
\* spawn appends exactly one new process to the caller's children with the caller as its
\* parent, hands it to the scheduler exactly once and returns its pid; a spawn whose
\* program is not found returns -1 and changes neither the children nor the scheduler.
C20_SpawnKeepsTree ==
  /\ []ChildrenNameParent
  /\ [][\A p \in Pids :
          /\ sys_spawn(p, TRUE)
               => /\ ret' \notin Pids
                  /\ DOMAIN procs' = Pids \cup {ret'}
                  /\ procs'[p].children = Append(procs[p].children, ret')
                  /\ procs'[ret'].parent = p
                  /\ procs'[ret'].children = <<>>
                  /\ \A q \in Pids \ {p} : procs'[q] = procs[q]
                  /\ Occurrences(sched, ret') = 0
                  /\ Occurrences(sched', ret') = 1
                  /\ \A q \in Pids : Occurrences(sched', q) = Occurrences(sched, q)
          /\ sys_spawn(p, FALSE)
               => (ret' = -1 /\ procs' = procs /\ sched' = sched)]_vars

\* a process that was itself spawned by the initial process has just spawned a child,
\* which is the last one handed to the scheduler
C20_Witness ==
  \E p \in Pids \ {0} :
    /\ procs[p].parent = 0
    /\ ~procs[p].is_zombie
    /\ Len(procs[p].children) = 1
    /\ ret = procs[p].children[1]
    /\ sched # <<>> /\ sched[Len(sched)] = ret
    /\ Len(procs[0].children) = 2

\* no entry of the vector or of the matrix holds a wrapped value (2^64 - 1 is kept as -1)
VectorNotWrapped(v) == \A k \in 1 .. Len(v) : v[k] >= 0

MatrixNotWrapped(m) == \A r \in 1 .. Len(m) : VectorNotWrapped(m[r])

\* C21: whatever the detection flag is and however it is toggled, no entry of Need,
\* Allocation or Available of either class is decremented from 0: the kernel never
\* stops on an arithmetic overflow and no entry holds a wrapped value; a lock or down
\* that succeeds with detection off thus leaves Need[t][r] at 0.
C21_NoCounterBelowZero ==
  /\ fault # "overflow"
  /\ VectorNotWrapped(mutex_available)
  /\ MatrixNotWrapped(mutex_allocation)
  /\ MatrixNotWrapped(mutex_need)
  /\ VectorNotWrapped(semaphore_available)
  /\ MatrixNotWrapped(semaphore_allocation)
  /\ MatrixNotWrapped(semaphore_need)

\* thread t is inside condvar.wait(mutex_id), has released the mutex and has not got it
\* back: it does not hold the mutex
WaitsWithout(t, mutex_id) ==
  /\ pc[t + 1] \in {"condvar_blocked", "condvar_ready", "condvar_mutex_blocked",
                    "condvar_mutex_spin"}
  /\ arg[t + 1] = mutex_id

\* mutex_id has been handed to a woken thread that has not run yet
HandedOver(mutex_id) ==
  \E t \in Tids : pc[t + 1] \in {"mutex_ready", "condvar_mutex_ready"} /\ arg[t + 1] = mutex_id

\* the threads booked as holding mutex_id
BookedHolders(mutex_id) ==
  {t \in Tids : InRange(mutex_allocation, t) /\ Get2(mutex_allocation, t, mutex_id) # 0}

\* C22: the bookkeeping of every mutex m matches its lock state, condvars included:
\* Available[m] is 1 exactly when m is unlocked and 0 exactly when it is locked, and
\* Allocation[t][m] is 1 exactly for the thread that holds m, so for no thread while m
\* is unlocked and not for a thread blocked in condvar_wait having released m.  (States
\* in which m is being handed to a thread that was woken and has not run are left out.)
C22_BookkeepingMatchesLocks ==
  fault = "none" =>
    \A mutex_id \in 0 .. (Len(mutex_list) - 1) :
      (Get(mutex_list, mutex_id).some /\ ~HandedOver(mutex_id)) =>
        /\ Get(mutex_available, mutex_id) = IF Get(mutex_list, mutex_id).locked THEN 0 ELSE 1
        /\ \A t \in BookedHolders(mutex_id) :
              /\ Get2(mutex_allocation, t, mutex_id) = 1
              /\ Get(mutex_list, mutex_id).locked
              /\ ~WaitsWithout(t, mutex_id)
        /\ Cardinality(BookedHolders(mutex_id)) =
              IF Get(mutex_list, mutex_id).locked THEN 1 ELSE 0

\* the number of threads marked in finish
Marked(st) == Cardinality({k \in 1 .. Len(st.finish) : st.finish[k]})

\* C23: the loop of the safety check of mutex_lock and of semaphore_down terminates:
\* every pass marks at least one more thread as finished or ends the loop, no check
\* takes more passes than there are threads plus one, and every check reaches its
\* decision.
C23_CheckLoopTerminates ==
  /\ [][(check.kind \in {"mutex", "semaphore"} /\ check' # check)
         => (check'.done \/ Marked(check'.st) > Marked(check.st))]_vars
  /\ [](check.passes <= Len(check.need) + 1)
  /\ (check.kind \in {"mutex", "semaphore"}) ~> check.done

\* a check of semaphore_down has ended after three passes: two that marked one thread
\* each and one that marked none
C23_Witness ==
  /\ check.kind = "semaphore"
  /\ check.done
  /\ check.passes = 3
  /\ check.st.fault = "none"
  /\ Marked(check.st) = 2

====
